---------------------------- MODULE Spec2Model ----------------------------
(***************************************************************************)
(* Fuel / odometer ledger of fuel/models.py.                               *)
(*                                                                         *)
(* Database tables are sequences of rows; a row's id is its position.      *)
(* Decimal(6,3) litres are integers in thousandths of a litre, norms       *)
(* Decimal(4,3) l/km are integers in thousandths, so every product and sum *)
(* of the source is exact here.  Dates are small integers.                 *)
(***************************************************************************)
EXTENDS Integers, Sequences, FiniteSets, TLC

VARIABLES
    NormsPassengerCars,         \* table fuel_normspassengercars
    PassengerCarWaybill,        \* table fuel_passengercarwaybill
    PassengerCarWaybillRecord,  \* table fuel_passengercarwaybillrecord
    OdometerFuelPassengerCar,   \* table fuel_odometerfuelpassengercar
    NormsFireTruck,             \* table fuel_normsfiretruck
    FireTruckWaybill,           \* table fuel_firetruckwaybill
    FireTruckWaybillRecord,     \* table fuel_firetruckwaybillrecord
    OdometerFuelFireTruck,      \* table fuel_odometerfuelfiretruck
    lastOp,                     \* outcome of the last request
    txn,                        \* open transactions of concurrent record saves
    User,                       \* table fuel_user: role_id of every user
    RoleSubstitution,           \* table of role substitutions
    Signature,                  \* table of signatures
    call,                       \* sign calls in progress, one per worker
    Role,                       \* table fuel_role
    Permission,                 \* table fuel_permission
    UserAccount,                \* table fuel_user: password and deleted_at
    Token,                      \* the access tokens issued so far
    clock                       \* the time, in minutes

vars == << NormsPassengerCars, PassengerCarWaybill, PassengerCarWaybillRecord,
           OdometerFuelPassengerCar, NormsFireTruck, FireTruckWaybill,
           FireTruckWaybillRecord, OdometerFuelFireTruck, lastOp, txn,
           User, RoleSubstitution, Signature, call,
           Role, Permission, UserAccount, Token, clock >>

pcVars == << NormsPassengerCars, PassengerCarWaybill, PassengerCarWaybillRecord,
             OdometerFuelPassengerCar >>

ftVars == << NormsFireTruck, FireTruckWaybill, FireTruckWaybillRecord,
             OdometerFuelFireTruck >>

signVars == << User, RoleSubstitution, Signature, call >>

roleVars == << Role, Permission >>

authVars == << UserAccount, Token, clock >>

----------------------------------------------------------------------------
(* Bounds of the model *)

MaxDate == 2
MaxStates == 3
MaxRecords == 2
MaxNorms == 2
MaxTokens == 3
MaxPasswords == 3

(* Program constants *)

MaxOdometer == 999999
MaxFuel == 999999

NULL == "NULL"

(* timezone.now() of a soft delete *)
NOW == "now"

Seasons == {"winter", "summer"}
Dates == 1..MaxDate

(* dates of approval of the norms that requests create *)
NormDates == {1, 2}

Workers == {1, 2}

PassengerCars == {1, 2}
FireTrucks == {1}

----------------------------------------------------------------------------
(* Soft delete *)

RowsOf(tbl) == {tbl[i] : i \in DOMAIN tbl}

alive(rows) == {r \in rows : r.deleted_at = NULL}

objects(tbl) == alive(RowsOf(tbl))

(* values_list('id') *)
Ids(rows) == {r.id : r \in rows}

dead(rows) == {r \in rows : r.deleted_at # NULL}

all_objects(tbl) == RowsOf(tbl)

all_with_deleted(tbl) == RowsOf(tbl)

only_deleted(tbl) == dead(RowsOf(tbl))

(* super().delete(): the rows of the query set leave the table *)
SoftDeleteQuerySet_hard_delete(tbl, qs) ==
    SelectSeq(tbl, LAMBDA r : r \notin qs)

(* SoftDeleteQuerySet.delete: UPDATE ... SET deleted_at = now() on the     *)
(* rows of the query set; no save() runs                                   *)
SoftDeleteQuerySet_delete(tbl, qs) ==
    [i \in DOMAIN tbl |->
        IF tbl[i] \in qs THEN [tbl[i] EXCEPT !.deleted_at = NOW] ELSE tbl[i]]

(* .order_by('id').first(): the oldest row in place of the newest *)
first_by_id_ascending(qs) == CHOOSE r \in qs : \A q \in qs : q.id >= r.id

(* .order_by('-id').first() on a non-empty query set *)
first_by_id(qs) == CHOOSE r \in qs : \A q \in qs : q.id <= r.id

(* .order_by('-id').first() where the source orders by date first *)
first_by_date_id_ignoring_date(qs) == CHOOSE r \in qs : \A q \in qs : q.id <= r.id

(* .order_by('-date', 'id').first(): among equal dates the oldest row *)
first_by_date_id_lowest_id(qs) ==
    CHOOSE r \in qs : \A q \in qs :
        \/ q.date < r.date
        \/ (q.date = r.date /\ q.id >= r.id)

first_by_date_id(qs) ==
    CHOOSE r \in qs : \A q \in qs :
        \/ q.date < r.date
        \/ (q.date = r.date /\ q.id <= r.id)

RECURSIVE SumSeq(_)
SumSeq(s) == IF s = << >> THEN 0 ELSE Head(s) + SumSeq(Tail(s))

(* Sum('fuel_used') over the whole table, the query set ignored *)
Sum_fuel_used_of_table(tbl, qs) ==
    SumSeq([i \in DOMAIN tbl |-> tbl[i].fuel_used])

(* qs.aggregate(Sum(field)) or Decimal('0.000') *)
Sum_fuel_used(tbl, qs) ==
    SumSeq([i \in DOMAIN tbl |-> IF tbl[i] \in qs THEN tbl[i].fuel_used ELSE 0])

Sum_fuel_refueled(tbl, qs) ==
    SumSeq([i \in DOMAIN tbl |-> IF tbl[i] \in qs THEN tbl[i].fuel_refueled ELSE 0])

Sum_fuel_used_normal(tbl, qs) ==
    SumSeq([i \in DOMAIN tbl |-> IF tbl[i] \in qs THEN tbl[i].fuel_used_normal ELSE 0])

(* Field validators run by full_clean() *)
PositiveIntegerField_ok(v) == v >= 0

MaxValueValidator_ok(v) == v <= MaxOdometer

MinValueValidator_ok(v) == v >= 0

DecimalValidator_ok(v) == v <= MaxFuel /\ v >= -MaxFuel

(* the block without transaction.atomic(): the writes made before the *)
(* exception stay                                                     *)
transaction_none(before, after) == after

(* with transaction.atomic(): an exception undoes every write of the block *)
transaction_atomic(before, after) ==
    IF after.ok THEN after
    ELSE [after EXCEPT !.records = before.records,
                       !.states = before.states,
                       !.waybills = before.waybills]

Outcome(ok, err, records, states, waybills) ==
    [ok |-> ok, err |-> err, records |-> records, states |-> states,
     waybills |-> waybills]

LastOp(op, ok, err, wb) == [op |-> op, ok |-> ok, err |-> err, wb |-> wb]

----------------------------------------------------------------------------
(* Passenger cars *)

(* Request payloads of a trip record: the writable fields *)
PassengerCarRecordInputs ==
    { [distance_city_km |-> 10, distance_area_km |-> 5,
       fuel_refueled |-> 0, fuel_used |-> 1600],
      [distance_city_km |-> 0, distance_area_km |-> 0,
       fuel_refueled |-> 20000, fuel_used |-> 0],
      [distance_city_km |-> 3, distance_area_km |-> 0,
       fuel_refueled |-> 0, fuel_used |-> 60000] }

SeedOdometers == {999980}
SeedFuels == {50000}

NewWaybill(id, car, date, season) ==
    [id |-> id, car |-> car, date |-> date, norm_season |-> season,
     upon_issuance |-> 0, total_spent |-> 0, total_received |-> 0,
     required_by_norm |-> 0, availability_upon_delivery |-> 0,
     savings |-> 0, overrun |-> 0, deleted_at |-> NULL]

(* start_state without date__lte=self.date *)
recalc_totals_start_state_any_date(states, car, date) ==
    {s \in objects(states) : s.car = car}

(* The start_state query of recalc_totals, before .order_by().first() *)
recalc_totals_start_state(states, car, date) ==
    {s \in objects(states) : s.car = car /\ s.date <= date}

(* savings = |diff| whatever the sign of diff *)
recalc_totals_savings_unsigned(diff) == IF diff >= 0 THEN diff ELSE -diff

(* recalc_totals: savings and overrun from diff *)
recalc_totals_savings(diff) == IF diff >= 0 THEN diff ELSE 0

(* overrun = diff in place of -diff *)
recalc_totals_overrun_signed(diff) == IF diff >= 0 THEN 0 ELSE diff

recalc_totals_overrun(diff) == IF diff >= 0 THEN 0 ELSE -diff

(* recalc_totals with total_received += sum in place of total_received = sum *)
PassengerCarWaybill_recalc_totals_accumulating(self, states, records) ==
    LET start_state == recalc_totals_start_state(states, self.car, self.date)
        upon_issuance == IF start_state # {}
                         THEN first_by_date_id(start_state).fuel ELSE 0
        qs == {r \in objects(records) : r.passenger_car_waybill = self.id}
        diff == Sum_fuel_used_normal(records, qs) - Sum_fuel_used(records, qs)
    IN  [self EXCEPT
            !.upon_issuance = upon_issuance,
            !.total_spent = Sum_fuel_used(records, qs),
            !.total_received = self.total_received + Sum_fuel_refueled(records, qs),
            !.required_by_norm = Sum_fuel_used_normal(records, qs),
            !.availability_upon_delivery =
                IF qs # {} THEN first_by_id(qs).fuel_on_return ELSE upon_issuance,
            !.savings = recalc_totals_savings(diff),
            !.overrun = recalc_totals_overrun(diff)]

(* PassengerCarWaybill.recalc_totals: the values of the seven aggregates *)
PassengerCarWaybill_recalc_totals(self, states, records) ==
    LET start_state == recalc_totals_start_state(states, self.car, self.date)
        upon_issuance == IF start_state # {}
                         THEN first_by_date_id(start_state).fuel ELSE 0
        qs == {r \in objects(records) : r.passenger_car_waybill = self.id}
        total_spent == Sum_fuel_used(records, qs)
        total_received == Sum_fuel_refueled(records, qs)
        required_by_norm == Sum_fuel_used_normal(records, qs)
        diff == required_by_norm - total_spent
    IN  [self EXCEPT
            !.upon_issuance = upon_issuance,
            !.total_spent = total_spent,
            !.total_received = total_received,
            !.required_by_norm = required_by_norm,
            !.availability_upon_delivery =
                IF qs # {} THEN first_by_id(qs).fuel_on_return ELSE upon_issuance,
            !.savings = recalc_totals_savings(diff),
            !.overrun = recalc_totals_overrun(diff)]

(* the query without .filter(car=car) *)
OdometerFuelPassengerCar_last_state_any_car(car) ==
    objects(OdometerFuelPassengerCar)

(* the query through all_objects: soft-deleted snapshots included *)
OdometerFuelPassengerCar_last_state_with_deleted(car) ==
    {s \in all_objects(OdometerFuelPassengerCar) : s.car = car}

(* The query of PassengerCarWaybillRecord._fill_start_values *)
OdometerFuelPassengerCar_last_state(car) ==
    {s \in objects(OdometerFuelPassengerCar) : s.car = car}

PassengerCarWaybillRecord_fill_start_values(self, last_state) ==
    [self EXCEPT !.odometer_before = last_state.odometer,
                 !.fuel_before_departure = last_state.fuel]

(* the query without date__lte=wb.date *)
NormsPassengerCars_any_date(car, season, date) ==
    {n \in objects(NormsPassengerCars) : n.car = car /\ n.season = season}

(* the query with date__gte in place of date__lte *)
NormsPassengerCars_for_date_gte(car, season, date) ==
    {n \in objects(NormsPassengerCars) :
        n.car = car /\ n.season = season /\ n.date >= date}

(* The query of PassengerCarWaybillRecord._apply_norms and of *)
(* NormsPassengerCarsViewSet.for_date                         *)
NormsPassengerCars_for_date(car, season, date) ==
    {n \in objects(NormsPassengerCars) :
        n.car = car /\ n.season = season /\ n.date <= date}

(* _apply_norms with the city and area norms exchanged *)
PassengerCarWaybillRecord_apply_norms_exchanged(self, norm) ==
    LET distance_total_km == self.distance_city_km + self.distance_area_km
        fuel_used_city == self.distance_city_km * norm.area_norm
        fuel_used_area == self.distance_area_km * norm.city_norm
    IN  [self EXCEPT
            !.distance_total_km = distance_total_km,
            !.odometer_after = self.odometer_before + distance_total_km,
            !.fuel_used_city = fuel_used_city,
            !.fuel_used_area = fuel_used_area,
            !.fuel_used_normal = fuel_used_city + fuel_used_area]

PassengerCarWaybillRecord_apply_norms(self, norm) ==
    LET distance_total_km == self.distance_city_km + self.distance_area_km
        fuel_used_city == self.distance_city_km * norm.city_norm
        fuel_used_area == self.distance_area_km * norm.area_norm
    IN  [self EXCEPT
            !.distance_total_km = distance_total_km,
            !.odometer_after = self.odometer_before + distance_total_km,
            !.fuel_used_city = fuel_used_city,
            !.fuel_used_area = fuel_used_area,
            !.fuel_used_normal = fuel_used_city + fuel_used_area]

(* the by-norm figure subtracted in place of the reported fuel_used *)
PassengerCarWaybillRecord_calc_fuel_on_return_by_norm(self) ==
    [self EXCEPT !.fuel_on_return =
        self.fuel_before_departure - self.fuel_used_normal + self.fuel_refueled]

PassengerCarWaybillRecord_calc_fuel_on_return(self) ==
    [self EXCEPT !.fuel_on_return =
        self.fuel_before_departure - self.fuel_used + self.fuel_refueled]

(* CHECK (col >= 0) of the PositiveIntegerField columns of the record *)
PassengerCarWaybillRecord_db_check(self) ==
    /\ PositiveIntegerField_ok(self.distance_city_km)
    /\ PositiveIntegerField_ok(self.distance_area_km)
    /\ PositiveIntegerField_ok(self.odometer_before)
    /\ PositiveIntegerField_ok(self.odometer_after)
    /\ PositiveIntegerField_ok(self.distance_total_km)

(* super().save(): INSERT, UPDATE of every column, or UPDATE of update_fields *)
PassengerCarWaybillRecord_write(self, update_fields) ==
    IF self.id > Len(PassengerCarWaybillRecord)
    THEN Append(PassengerCarWaybillRecord, self)
    ELSE IF update_fields = "deleted_at"
         THEN [PassengerCarWaybillRecord EXCEPT
                  ![self.id].deleted_at = self.deleted_at]
         ELSE [PassengerCarWaybillRecord EXCEPT ![self.id] = self]

(* full_clean() without the validators *)
OdometerFuelPassengerCar_full_clean_unchecked(row) == TRUE

(* OdometerFuelPassengerCar.full_clean() of a row with car, odometer, fuel set *)
OdometerFuelPassengerCar_full_clean(row) ==
    /\ PositiveIntegerField_ok(row.odometer)
    /\ MaxValueValidator_ok(row.odometer)
    /\ MinValueValidator_ok(row.fuel)
    /\ DecimalValidator_ok(row.fuel)

(* the snapshot with the values before the trip and without the waybill *)
PassengerCarWaybillRecord_new_state_before_trip(self, wb) ==
    [id |-> Len(OdometerFuelPassengerCar) + 1,
     car |-> wb.car,
     odometer |-> self.odometer_before,
     fuel |-> self.fuel_before_departure,
     date |-> wb.date,
     waybill |-> 0,
     deleted_at |-> NULL]

(* The snapshot that PassengerCarWaybillRecord.save creates *)
PassengerCarWaybillRecord_new_state(self, wb) ==
    [id |-> Len(OdometerFuelPassengerCar) + 1,
     car |-> wb.car,
     odometer |-> self.odometer_after,
     fuel |-> self.fuel_on_return,
     date |-> wb.date,
     waybill |-> wb.id,
     deleted_at |-> NULL]

(* update_or_create(car=...) in place of create: the car's latest row is *)
(* overwritten                                                          *)
OdometerFuelPassengerCar_update_or_create(row) ==
    LET qs == {s \in objects(OdometerFuelPassengerCar) : s.car = row.car}
    IN  IF qs = {} THEN Append(OdometerFuelPassengerCar, row)
        ELSE [OdometerFuelPassengerCar EXCEPT ![first_by_date_id(qs).id] =
                 [row EXCEPT !.id = first_by_date_id(qs).id]]

(* OdometerFuelPassengerCar.objects.create(...): INSERT of a new row *)
OdometerFuelPassengerCar_objects_create(row) ==
    Append(OdometerFuelPassengerCar, row)

PassengerCarTables ==
    Outcome(TRUE, "", PassengerCarWaybillRecord, OdometerFuelPassengerCar,
            PassengerCarWaybill)

(* PassengerCarWaybillRecord.save after _fill_start_values: the writes made  *)
(* up to the first exception, or all of them                                 *)
PassengerCarWaybillRecord_save_steps(self, update_fields) ==
    LET wb == PassengerCarWaybill[self.passenger_car_waybill]
        norm == NormsPassengerCars_for_date(wb.car, wb.norm_season, wb.date)
    IN  IF norm = {}
        THEN [PassengerCarTables EXCEPT !.ok = FALSE, !.err = "ValidationError:norm"]
        ELSE
        LET rec == PassengerCarWaybillRecord_calc_fuel_on_return(
                     PassengerCarWaybillRecord_apply_norms(self, first_by_date_id(norm)))
            records1 == PassengerCarWaybillRecord_write(rec, update_fields)
            state == PassengerCarWaybillRecord_new_state(rec, wb)
            states1 == OdometerFuelPassengerCar_objects_create(state)
        IN  IF update_fields # "deleted_at" /\ ~PassengerCarWaybillRecord_db_check(rec)
            THEN [PassengerCarTables EXCEPT !.ok = FALSE, !.err = "IntegrityError"]
            ELSE IF ~OdometerFuelPassengerCar_full_clean(state)
            THEN Outcome(FALSE, "ValidationError:state", records1,
                         OdometerFuelPassengerCar, PassengerCarWaybill)
            ELSE Outcome(TRUE, "", records1, states1,
                         [PassengerCarWaybill EXCEPT ![wb.id] =
                             PassengerCarWaybill_recalc_totals(wb, states1, records1)])

(* PassengerCarWaybillRecord.save *)
PassengerCarWaybillRecord_save(self, update_fields) ==
    LET car == PassengerCarWaybill[self.passenger_car_waybill].car
        last_state == OdometerFuelPassengerCar_last_state(car)
    IN  IF last_state = {}
        THEN [PassengerCarTables EXCEPT !.ok = FALSE,
                                        !.err = "ValidationError:last_state"]
        ELSE transaction_atomic(PassengerCarTables,
                PassengerCarWaybillRecord_save_steps(
                    PassengerCarWaybillRecord_fill_start_values(
                        self, first_by_date_id(last_state)),
                    update_fields))

NewPassengerCarRecord(id, w, inp) ==
    [id |-> id, passenger_car_waybill |-> w,
     distance_city_km |-> inp.distance_city_km,
     distance_area_km |-> inp.distance_area_km,
     fuel_refueled |-> inp.fuel_refueled,
     fuel_used |-> inp.fuel_used,
     odometer_after |-> 0, fuel_before_departure |-> 0, odometer_before |-> 0,
     distance_total_km |-> 0, fuel_used_city |-> 0, fuel_used_area |-> 0,
     fuel_on_return |-> 0, fuel_used_normal |-> 0, deleted_at |-> NULL]

RowBudget ==
    /\ Len(OdometerFuelPassengerCar) + Len(OdometerFuelFireTruck) < MaxStates

(* POST /passenger-car-records/ *)
PassengerCarWaybillRecord_create ==
    \E w \in DOMAIN PassengerCarWaybill, inp \in PassengerCarRecordInputs :
        /\ Len(PassengerCarWaybillRecord) + Len(FireTruckWaybillRecord) < MaxRecords
        /\ RowBudget
        /\ LET id == Len(PassengerCarWaybillRecord) + 1
               res == PassengerCarWaybillRecord_save(
                          NewPassengerCarRecord(id, w, inp), "all")
           IN  /\ PassengerCarWaybillRecord' = res.records
               /\ OdometerFuelPassengerCar' = res.states
               /\ PassengerCarWaybill' = res.waybills
               /\ lastOp' = LastOp("pc_record_create", res.ok, res.err, w)
        /\ UNCHANGED << signVars, roleVars, authVars, NormsPassengerCars, ftVars, txn >>

(* PUT /passenger-car-records/<id>/ *)
PassengerCarWaybillRecord_update ==
    \E r \in objects(PassengerCarWaybillRecord), inp \in PassengerCarRecordInputs :
        /\ RowBudget
        /\ LET res == PassengerCarWaybillRecord_save(
                        [r EXCEPT !.distance_city_km = inp.distance_city_km,
                                  !.distance_area_km = inp.distance_area_km,
                                  !.fuel_refueled = inp.fuel_refueled,
                                  !.fuel_used = inp.fuel_used], "all")
           IN  /\ PassengerCarWaybillRecord' = res.records
               /\ OdometerFuelPassengerCar' = res.states
               /\ PassengerCarWaybill' = res.waybills
               /\ lastOp' = LastOp("pc_record_update", res.ok, res.err,
                                   r.passenger_car_waybill)
        /\ UNCHANGED << signVars, roleVars, authVars, NormsPassengerCars, ftVars, txn >>

(* PUT /passenger-car-records/<id>/ with another waybill in            *)
(* passenger_car_waybill and the other inputs as they are               *)
PassengerCarWaybillRecord_update_waybill ==
    \E r \in objects(PassengerCarWaybillRecord),
       w \in Ids(objects(PassengerCarWaybill)) :
        /\ RowBudget
        /\ w # r.passenger_car_waybill
        /\ LET res == PassengerCarWaybillRecord_save(
                        [r EXCEPT !.passenger_car_waybill = w], "all")
           IN  /\ PassengerCarWaybillRecord' = res.records
               /\ OdometerFuelPassengerCar' = res.states
               /\ PassengerCarWaybill' = res.waybills
               /\ lastOp' = LastOp("pc_record_update_waybill", res.ok, res.err, w)
        /\ UNCHANGED << signVars, roleVars, authVars, NormsPassengerCars, ftVars, txn >>

(* DELETE /passenger-car-records/<id>/ : SoftDeleteModel.delete sets *)
(* deleted_at and calls self.save(update_fields=['deleted_at'])      *)
PassengerCarWaybillRecord_destroy ==
    \E r \in objects(PassengerCarWaybillRecord) :
        /\ RowBudget
        /\ LET res == PassengerCarWaybillRecord_save(
                        [r EXCEPT !.deleted_at = NOW], "deleted_at")
           IN  /\ PassengerCarWaybillRecord' = res.records
               /\ OdometerFuelPassengerCar' = res.states
               /\ PassengerCarWaybill' = res.waybills
               /\ lastOp' = LastOp("pc_record_destroy", res.ok, res.err,
                                   r.passenger_car_waybill)
        /\ UNCHANGED << signVars, roleVars, authVars, NormsPassengerCars, ftVars, txn >>

(* POST /passenger-car-odometer-fuel/ without a waybill: car, odometer and *)
(* fuel given (OdometerFuelPassengerCar.clean, else branch)                *)
OdometerFuelPassengerCar_create ==
    \E car \in PassengerCars, odometer \in SeedOdometers, fuel \in SeedFuels,
       date \in Dates :
        /\ RowBudget
        /\ LET row == [id |-> Len(OdometerFuelPassengerCar) + 1, car |-> car,
                       odometer |-> odometer, fuel |-> fuel, date |-> date,
                       waybill |-> 0, deleted_at |-> NULL]
               ok == OdometerFuelPassengerCar_full_clean(row)
           IN  /\ OdometerFuelPassengerCar' =
                    IF ok THEN Append(OdometerFuelPassengerCar, row)
                    ELSE OdometerFuelPassengerCar
               /\ lastOp' = LastOp("pc_state_create", ok,
                                   IF ok THEN "" ELSE "ValidationError", 0)
        /\ UNCHANGED << signVars, roleVars, authVars, NormsPassengerCars, PassengerCarWaybill,
                        PassengerCarWaybillRecord, ftVars, txn >>

NormBudget ==
    Len(NormsPassengerCars) + Len(NormsFireTruck) < MaxNorms

(* the response of a for-date request: 200 with the norm, or 404 *)
LastOpForDate(op, car, season, date, norm) ==
    [op |-> op, ok |-> norm # {}, err |-> IF norm = {} THEN "404" ELSE "",
     wb |-> 0, car |-> car, season |-> season, date |-> date,
     norm |-> IF norm = {} THEN 0 ELSE first_by_date_id(norm).id]

(* POST /passenger-car-norms/ : each new norm has rates of its own *)
NormsPassengerCars_create ==
    \E car \in PassengerCars, season \in Seasons, date \in NormDates :
        /\ NormBudget
        /\ LET id == Len(NormsPassengerCars) + 1
           IN  NormsPassengerCars' = Append(NormsPassengerCars,
                   [id |-> id, car |-> car, season |-> season,
                    city_norm |-> 100 + 10 * id, area_norm |-> 80 + 10 * id,
                    date |-> date, deleted_at |-> NULL])
        /\ lastOp' = LastOp("pc_norm_create", TRUE, "", 0)
        /\ UNCHANGED << signVars, roleVars, authVars, PassengerCarWaybill, PassengerCarWaybillRecord,
                        OdometerFuelPassengerCar, ftVars, txn >>

(* DELETE /passenger-car-norms/<id>/ *)
NormsPassengerCars_destroy ==
    \E n \in objects(NormsPassengerCars) :
        /\ NormsPassengerCars' =
              [NormsPassengerCars EXCEPT ![n.id].deleted_at = NOW]
        /\ lastOp' = LastOp("pc_norm_destroy", TRUE, "", 0)
        /\ UNCHANGED << signVars, roleVars, authVars, PassengerCarWaybill, PassengerCarWaybillRecord,
                        OdometerFuelPassengerCar, ftVars, txn >>

(* admin, "delete selected" on the norms: queryset.delete() *)
NormsPassengerCars_delete_selected ==
    \E qs \in SUBSET objects(NormsPassengerCars) :
        /\ qs # {}
        /\ NormsPassengerCars' = SoftDeleteQuerySet_delete(NormsPassengerCars, qs)
        /\ lastOp' = LastOp("pc_norm_delete_selected", TRUE, "", 0)
        /\ UNCHANGED << signVars, roleVars, authVars, PassengerCarWaybill, PassengerCarWaybillRecord,
                        OdometerFuelPassengerCar, ftVars, txn >>

(* admin, "delete selected" on the trip records: queryset.delete() *)
PassengerCarWaybillRecord_delete_selected ==
    \E qs \in SUBSET objects(PassengerCarWaybillRecord) :
        /\ qs # {}
        /\ PassengerCarWaybillRecord' =
              SoftDeleteQuerySet_delete(PassengerCarWaybillRecord, qs)
        /\ lastOp' = LastOp("pc_record_delete_selected", TRUE, "", 0)
        /\ UNCHANGED << signVars, roleVars, authVars, NormsPassengerCars, PassengerCarWaybill,
                        OdometerFuelPassengerCar, ftVars, txn >>

(* GET /passenger-car-norms/for-date/?car=&season=&date= *)
NormsPassengerCarsViewSet_for_date ==
    \E car \in PassengerCars, season \in Seasons, date \in Dates :
        /\ lastOp' = LastOpForDate("pc_norm_for_date", car, season, date,
                          NormsPassengerCars_for_date(car, season, date))
        /\ UNCHANGED << signVars, roleVars, authVars, pcVars, ftVars, txn >>

----------------------------------------------------------------------------
(* Fire trucks *)

FireTruckRecordInputs ==
    { [odometer_after |-> 999990, time_with_pump |-> 10, time_without_pump |-> 5,
       fuel_refueled |-> 0, fuel_used |-> 3000],
      [odometer_after |-> 999970, time_with_pump |-> 0, time_without_pump |-> 0,
       fuel_refueled |-> 20000, fuel_used |-> 0],
      [odometer_after |-> 999995, time_with_pump |-> 0, time_without_pump |-> 20,
       fuel_refueled |-> 0, fuel_used |-> 60000] }

(* FireTruckWaybill.recalc_totals: the values of the seven aggregates *)
FireTruckWaybill_recalc_totals(self, states, records) ==
    LET start_state == recalc_totals_start_state(states, self.car, self.date)
        upon_issuance == IF start_state # {}
                         THEN first_by_date_id(start_state).fuel ELSE 0
        qs == {r \in objects(records) : r.fire_truck_waybill = self.id}
        total_spent == Sum_fuel_used(records, qs)
        total_received == Sum_fuel_refueled(records, qs)
        required_by_norm == Sum_fuel_used_normal(records, qs)
        diff == required_by_norm - total_spent
    IN  [self EXCEPT
            !.upon_issuance = upon_issuance,
            !.total_spent = total_spent,
            !.total_received = total_received,
            !.required_by_norm = required_by_norm,
            !.availability_upon_delivery =
                IF qs # {} THEN first_by_id(qs).fuel_on_return ELSE upon_issuance,
            !.savings = recalc_totals_savings(diff),
            !.overrun = recalc_totals_overrun(diff)]

(* The query of FireTruckWaybillRecord._fill_start_values *)
OdometerFuelFireTruck_last_state(car) ==
    {s \in objects(OdometerFuelFireTruck) : s.car = car}

FireTruckWaybillRecord_fill_start_values(self, last_state) ==
    [self EXCEPT !.odometer_before = last_state.odometer,
                 !.fuel_before_departure = last_state.fuel]

(* The query of FireTruckWaybillRecord._apply_norms and of *)
(* NormsFireTruckViewSet.for_date                         *)
NormsFireTruck_for_date(car, season, date) ==
    {n \in objects(NormsFireTruck) :
        n.car = car /\ n.season = season /\ n.date <= date}

(* _apply_norms with the two pump norms exchanged *)
FireTruckWaybillRecord_apply_norms_exchanged(self, norm) ==
    LET distance_km == self.odometer_after - self.odometer_before
        fuel_used_by_distance == distance_km * norm.km_norm
        fuel_used_with_pump == self.time_with_pump * norm.without_pump_norm
        fuel_used_without_pump == self.time_without_pump * norm.with_pump_norm
    IN  [self EXCEPT
            !.distance_km = distance_km,
            !.fuel_used_by_distance = fuel_used_by_distance,
            !.fuel_used_with_pump = fuel_used_with_pump,
            !.fuel_used_without_pump = fuel_used_without_pump,
            !.fuel_used_normal = fuel_used_by_distance + fuel_used_with_pump
                                 + fuel_used_without_pump]

FireTruckWaybillRecord_apply_norms(self, norm) ==
    LET distance_km == self.odometer_after - self.odometer_before
        fuel_used_by_distance == distance_km * norm.km_norm
        fuel_used_with_pump == self.time_with_pump * norm.with_pump_norm
        fuel_used_without_pump == self.time_without_pump * norm.without_pump_norm
    IN  [self EXCEPT
            !.distance_km = distance_km,
            !.fuel_used_by_distance = fuel_used_by_distance,
            !.fuel_used_with_pump = fuel_used_with_pump,
            !.fuel_used_without_pump = fuel_used_without_pump,
            !.fuel_used_normal = fuel_used_by_distance + fuel_used_with_pump
                                 + fuel_used_without_pump]

FireTruckWaybillRecord_calc_fuel_on_return(self) ==
    [self EXCEPT !.fuel_on_return =
        self.fuel_before_departure - self.fuel_used + self.fuel_refueled]

(* the columns declared IntegerField: no CHECK (col >= 0) *)
FireTruckWaybillRecord_db_check_off(self) == TRUE

(* CHECK (col >= 0) of the PositiveIntegerField columns of the record *)
FireTruckWaybillRecord_db_check(self) ==
    /\ PositiveIntegerField_ok(self.odometer_after)
    /\ PositiveIntegerField_ok(self.time_with_pump)
    /\ PositiveIntegerField_ok(self.time_without_pump)
    /\ PositiveIntegerField_ok(self.odometer_before)
    /\ PositiveIntegerField_ok(self.distance_km)

(* super().save(): INSERT, UPDATE of every column, or UPDATE of update_fields *)
FireTruckWaybillRecord_write(self, update_fields) ==
    IF self.id > Len(FireTruckWaybillRecord)
    THEN Append(FireTruckWaybillRecord, self)
    ELSE IF update_fields = "deleted_at"
         THEN [FireTruckWaybillRecord EXCEPT
                  ![self.id].deleted_at = self.deleted_at]
         ELSE [FireTruckWaybillRecord EXCEPT ![self.id] = self]

(* OdometerFuelFireTruck.full_clean() of a row with car, odometer, fuel set *)
OdometerFuelFireTruck_full_clean(row) ==
    /\ PositiveIntegerField_ok(row.odometer)
    /\ MaxValueValidator_ok(row.odometer)
    /\ MinValueValidator_ok(row.fuel)
    /\ DecimalValidator_ok(row.fuel)

(* The snapshot that FireTruckWaybillRecord.save creates *)
FireTruckWaybillRecord_new_state(self, wb) ==
    [id |-> Len(OdometerFuelFireTruck) + 1,
     car |-> wb.car,
     odometer |-> self.odometer_after,
     fuel |-> self.fuel_on_return,
     date |-> wb.date,
     waybill |-> wb.id,
     deleted_at |-> NULL]

(* OdometerFuelFireTruck.objects.create(...): INSERT of a new row *)
OdometerFuelFireTruck_objects_create(row) ==
    Append(OdometerFuelFireTruck, row)

FireTruckTables ==
    Outcome(TRUE, "", FireTruckWaybillRecord, OdometerFuelFireTruck,
            FireTruckWaybill)

(* FireTruckWaybillRecord.save after _fill_start_values: the writes made up *)
(* to the first exception, or all of them                                   *)
FireTruckWaybillRecord_save_steps(self, update_fields) ==
    LET wb == FireTruckWaybill[self.fire_truck_waybill]
        norm == NormsFireTruck_for_date(wb.car, wb.norm_season, wb.date)
    IN  IF norm = {}
        THEN [FireTruckTables EXCEPT !.ok = FALSE, !.err = "ValidationError:norm"]
        ELSE
        LET rec == FireTruckWaybillRecord_calc_fuel_on_return(
                     FireTruckWaybillRecord_apply_norms(self, first_by_date_id(norm)))
            records1 == FireTruckWaybillRecord_write(rec, update_fields)
            state == FireTruckWaybillRecord_new_state(rec, wb)
            states1 == OdometerFuelFireTruck_objects_create(state)
        IN  IF update_fields # "deleted_at" /\ ~FireTruckWaybillRecord_db_check(rec)
            THEN [FireTruckTables EXCEPT !.ok = FALSE, !.err = "IntegrityError"]
            ELSE IF ~OdometerFuelFireTruck_full_clean(state)
            THEN Outcome(FALSE, "ValidationError:state", records1,
                         OdometerFuelFireTruck, FireTruckWaybill)
            ELSE Outcome(TRUE, "", records1, states1,
                         [FireTruckWaybill EXCEPT ![wb.id] =
                             FireTruckWaybill_recalc_totals(wb, states1, records1)])

(* FireTruckWaybillRecord.save *)
FireTruckWaybillRecord_save(self, update_fields) ==
    LET car == FireTruckWaybill[self.fire_truck_waybill].car
        last_state == OdometerFuelFireTruck_last_state(car)
    IN  IF last_state = {}
        THEN [FireTruckTables EXCEPT !.ok = FALSE,
                                     !.err = "ValidationError:last_state"]
        ELSE transaction_atomic(FireTruckTables,
                FireTruckWaybillRecord_save_steps(
                    FireTruckWaybillRecord_fill_start_values(
                        self, first_by_date_id(last_state)),
                    update_fields))

NewFireTruckRecord(id, w, inp) ==
    [id |-> id, fire_truck_waybill |-> w,
     odometer_after |-> inp.odometer_after,
     time_with_pump |-> inp.time_with_pump,
     time_without_pump |-> inp.time_without_pump,
     fuel_refueled |-> inp.fuel_refueled,
     fuel_used |-> inp.fuel_used,
     fuel_before_departure |-> 0, odometer_before |-> 0, distance_km |-> 0,
     fuel_on_return |-> 0, fuel_used_by_distance |-> 0,
     fuel_used_with_pump |-> 0, fuel_used_without_pump |-> 0,
     fuel_used_normal |-> 0, deleted_at |-> NULL]

(* POST /fire-truck-records/ *)
FireTruckWaybillRecord_create ==
    \E w \in DOMAIN FireTruckWaybill, inp \in FireTruckRecordInputs :
        /\ Len(PassengerCarWaybillRecord) + Len(FireTruckWaybillRecord) < MaxRecords
        /\ RowBudget
        /\ LET id == Len(FireTruckWaybillRecord) + 1
               res == FireTruckWaybillRecord_save(
                          NewFireTruckRecord(id, w, inp), "all")
           IN  /\ FireTruckWaybillRecord' = res.records
               /\ OdometerFuelFireTruck' = res.states
               /\ FireTruckWaybill' = res.waybills
               /\ lastOp' = LastOp("ft_record_create", res.ok, res.err, w)
        /\ UNCHANGED << signVars, roleVars, authVars, NormsFireTruck, pcVars, txn >>

(* PUT /fire-truck-records/<id>/ *)
FireTruckWaybillRecord_update ==
    \E r \in objects(FireTruckWaybillRecord), inp \in FireTruckRecordInputs :
        /\ RowBudget
        /\ LET res == FireTruckWaybillRecord_save(
                        [r EXCEPT !.odometer_after = inp.odometer_after,
                                  !.time_with_pump = inp.time_with_pump,
                                  !.time_without_pump = inp.time_without_pump,
                                  !.fuel_refueled = inp.fuel_refueled,
                                  !.fuel_used = inp.fuel_used], "all")
           IN  /\ FireTruckWaybillRecord' = res.records
               /\ OdometerFuelFireTruck' = res.states
               /\ FireTruckWaybill' = res.waybills
               /\ lastOp' = LastOp("ft_record_update", res.ok, res.err,
                                   r.fire_truck_waybill)
        /\ UNCHANGED << signVars, roleVars, authVars, NormsFireTruck, pcVars, txn >>

(* DELETE /fire-truck-records/<id>/ : SoftDeleteModel.delete sets    *)
(* deleted_at and calls self.save(update_fields=['deleted_at'])      *)
FireTruckWaybillRecord_destroy ==
    \E r \in objects(FireTruckWaybillRecord) :
        /\ RowBudget
        /\ LET res == FireTruckWaybillRecord_save(
                        [r EXCEPT !.deleted_at = NOW], "deleted_at")
           IN  /\ FireTruckWaybillRecord' = res.records
               /\ OdometerFuelFireTruck' = res.states
               /\ FireTruckWaybill' = res.waybills
               /\ lastOp' = LastOp("ft_record_destroy", res.ok, res.err,
                                   r.fire_truck_waybill)
        /\ UNCHANGED << signVars, roleVars, authVars, NormsFireTruck, pcVars, txn >>

(* POST /fire-truck-odometer-fuel/ without a waybill: car, odometer and *)
(* fuel given (OdometerFuelFireTruck.clean, else branch)                *)
OdometerFuelFireTruck_create ==
    \E car \in FireTrucks, odometer \in SeedOdometers, fuel \in SeedFuels,
       date \in Dates :
        /\ RowBudget
        /\ LET row == [id |-> Len(OdometerFuelFireTruck) + 1, car |-> car,
                       odometer |-> odometer, fuel |-> fuel, date |-> date,
                       waybill |-> 0, deleted_at |-> NULL]
               ok == OdometerFuelFireTruck_full_clean(row)
           IN  /\ OdometerFuelFireTruck' =
                    IF ok THEN Append(OdometerFuelFireTruck, row)
                    ELSE OdometerFuelFireTruck
               /\ lastOp' = LastOp("ft_state_create", ok,
                                   IF ok THEN "" ELSE "ValidationError", 0)
        /\ UNCHANGED << signVars, roleVars, authVars, NormsFireTruck, FireTruckWaybill,
                        FireTruckWaybillRecord, pcVars, txn >>

(* POST /fire-truck-norms/ : each new norm has rates of its own *)
NormsFireTruck_create ==
    \E car \in FireTrucks, season \in Seasons, date \in NormDates :
        /\ NormBudget
        /\ LET id == Len(NormsFireTruck) + 1
           IN  NormsFireTruck' = Append(NormsFireTruck,
                   [id |-> id, car |-> car, season |-> season,
                    with_pump_norm |-> 500 + 10 * id,
                    without_pump_norm |-> 200 + 10 * id,
                    km_norm |-> 300 + 10 * id,
                    date |-> date, deleted_at |-> NULL])
        /\ lastOp' = LastOp("ft_norm_create", TRUE, "", 0)
        /\ UNCHANGED << signVars, roleVars, authVars, FireTruckWaybill, FireTruckWaybillRecord,
                        OdometerFuelFireTruck, pcVars, txn >>

(* DELETE /fire-truck-norms/<id>/ *)
NormsFireTruck_destroy ==
    \E n \in objects(NormsFireTruck) :
        /\ NormsFireTruck' = [NormsFireTruck EXCEPT ![n.id].deleted_at = NOW]
        /\ lastOp' = LastOp("ft_norm_destroy", TRUE, "", 0)
        /\ UNCHANGED << signVars, roleVars, authVars, FireTruckWaybill, FireTruckWaybillRecord,
                        OdometerFuelFireTruck, pcVars, txn >>

(* GET /fire-truck-norms/for-date/?car=&season=&date= *)
NormsFireTruckViewSet_for_date ==
    \E car \in FireTrucks, season \in Seasons, date \in Dates :
        /\ lastOp' = LastOpForDate("ft_norm_for_date", car, season, date,
                          NormsFireTruck_for_date(car, season, date))
        /\ UNCHANGED << signVars, roleVars, authVars, pcVars, ftVars, txn >>

----------------------------------------------------------------------------
(* Signature workflow: fuel/services.py                                    *)
(*                                                                         *)
(* services.py imports RequiredRole, RoleSubstitution, Signature and       *)
(* Waybill from fuel/models.py, which no longer declares them: the shape   *)
(* of these four tables is the one of the design, section 4.5.             *)

Roles == {1, 2, 3}

Users == {1, 2, 3}

(* the waybills put up for signature *)
Documents == {1}

(* table of the signature slots: each slot names the role that signs it *)
RequiredRole == << [id |-> 1, role |-> 1], [id |-> 2, role |-> 2] >>

(* rows of RoleSubstitution an administrator may have registered:          *)
(* role 2 stands in for role 1, role 3 for role 2, role 1 for role 2       *)
SubstitutionRows ==
    { [main_role |-> 1, substitute_role |-> 2],
      [main_role |-> 2, substitute_role |-> 3],
      [main_role |-> 2, substitute_role |-> 1] }

(* "One signature per (document, slot) pair; enforced as a uniqueness      *)
(* constraint": TRUE when row may be inserted into rows                    *)
Signature_unique_together(rows, row) ==
    ~ \E s \in rows : /\ s.waybill = row.waybill
                      /\ s.required_role = row.required_role

(* RoleSubstitution.objects.filter(main_role=, substitute_role=).exists() *)
RoleSubstitution_exists(main_role, substitute_role) ==
    \E r \in RoleSubstitution : /\ r.main_role = main_role
                                /\ r.substitute_role = substitute_role

(* the lookup with main_role and substitute_role exchanged *)
can_user_sign_required_role_reversed(user, req) ==
    LET user_role == User[user]
    IN  IF user_role = req.role THEN TRUE
        ELSE RoleSubstitution_exists(user_role, req.role)

(* every user may sign every slot *)
can_user_sign_any_required_role(user, req) == TRUE

(* can_user_sign_required_role(user, req) *)
can_user_sign_required_role(user, req) ==
    LET user_role == User[user]
    IN  IF user_role = req.role THEN TRUE
        ELSE RoleSubstitution_exists(req.role, user_role)

(* Signature.objects.get(waybill=, required_role=): the matching rows *)
Signature_objects_get(sigs, waybill, req) ==
    {s \in RowsOf(sigs) : s.waybill = waybill /\ s.required_role = req.id}

SignatureResult(ok, err, sigs, signature, created) ==
    [ok |-> ok, err |-> err, Signature |-> sigs, signature |-> signature,
     created |-> created]

(* Signature.objects.create(waybill=, required_role=, user=) *)
Signature_objects_create(sigs, waybill, req, user) ==
    LET row == [id |-> Len(sigs) + 1, waybill |-> waybill,
                required_role |-> req.id, user |-> user]
    IN  IF Signature_unique_together(RowsOf(sigs), row)
        THEN SignatureResult(TRUE, "", Append(sigs, row), {row}, TRUE)
        ELSE SignatureResult(FALSE, "IntegrityError", sigs, {}, FALSE)

(* update_or_create: an existing row takes the user of the call *)
Signature_objects_update_or_create(sigs, waybill, req, user) ==
    LET found == Signature_objects_get(sigs, waybill, req)
    IN  IF found = {} THEN Signature_objects_create(sigs, waybill, req, user)
        ELSE LET row == [first_by_id(found) EXCEPT !.user = user]
             IN  SignatureResult(TRUE, "", [sigs EXCEPT ![row.id] = row], {row},
                                 FALSE)

(* Signature.objects.get_or_create(waybill=, required_role=,               *)
(*                                 defaults={'user': user})                *)
Signature_objects_get_or_create(sigs, waybill, req, user) ==
    LET found == Signature_objects_get(sigs, waybill, req)
    IN  IF Cardinality(found) > 1
        THEN SignatureResult(FALSE, "MultipleObjectsReturned", sigs, {}, FALSE)
        ELSE IF found # {}
        THEN SignatureResult(TRUE, "", sigs, found, FALSE)
        ELSE Signature_objects_create(sigs, waybill, req, user)

(* a slot that was filled before the call is refused to everybody *)
sign_waybill_result_created_only(user, res) ==
    IF ~res.ok THEN res
    ELSE IF ~res.created
    THEN [res EXCEPT !.ok = FALSE, !.err = "PermissionDenied:signed",
                     !.signature = {}]
    ELSE res

(* lines 50-53: the slot belongs to the user who filled it *)
sign_waybill_result(user, res) ==
    IF ~res.ok THEN res
    ELSE IF ~res.created /\ first_by_id(res.signature).user # user
    THEN [res EXCEPT !.ok = FALSE, !.err = "PermissionDenied:signed",
                     !.signature = {}]
    ELSE res

(* the slot is filled first and the right to sign is looked at afterwards *)
sign_waybill_for_required_role_unchecked_write(user, waybill, req) ==
    LET res == sign_waybill_result(user,
                  Signature_objects_get_or_create(Signature, waybill, req, user))
    IN  IF ~can_user_sign_required_role(user, req)
        THEN [res EXCEPT !.ok = FALSE, !.err = "PermissionDenied:slot",
                         !.signature = {}]
        ELSE res

(* sign_waybill_for_required_role(user, waybill, req) *)
sign_waybill_for_required_role(user, waybill, req) ==
    IF ~can_user_sign_required_role(user, req)
    THEN SignatureResult(FALSE, "PermissionDenied:slot", Signature, {}, FALSE)
    ELSE sign_waybill_result(user,
             Signature_objects_get_or_create(Signature, waybill, req, user))

(* the outcome of a sign call: the signature returned, or the error *)
LastOpSign(op, res, user, waybill, req) ==
    [op |-> op, ok |-> res.ok, err |-> res.err, wb |-> waybill, user |-> user,
     req |-> req.id,
     signature |-> IF res.signature = {} THEN 0
                   ELSE first_by_id(res.signature).id]

(* a call of sign_waybill_for_required_role, run to its end *)
sign_waybill_for_required_role_call ==
    \E user \in Users, waybill \in Documents, r \in DOMAIN RequiredRole :
        /\ LET res == sign_waybill_for_required_role(user, waybill,
                                                     RequiredRole[r])
           IN  /\ Signature' = res.Signature
               /\ lastOp' = LastOpSign("sign", res, user, waybill,
                                       RequiredRole[r])
        /\ UNCHANGED << roleVars, authVars, pcVars, ftVars, txn, User, RoleSubstitution, call >>

(* PUT /users/{id}/ : the user gets another role *)
User_update ==
    \E user \in Users, role \in Roles :
        /\ role # User[user]
        /\ User' = [User EXCEPT ![user] = role]
        /\ lastOp' = LastOp("user_update", TRUE, "", 0)
        /\ UNCHANGED << roleVars, authVars, pcVars, ftVars, txn, RoleSubstitution, Signature, call >>

(* Two requests sign at once.  get_or_create is a SELECT followed by an    *)
(* INSERT, and on IntegrityError a second SELECT; nothing is locked.       *)

SignCall(pc, user, waybill, req, res) ==
    << [pc |-> pc, user |-> user, waybill |-> waybill, req |-> req,
        res |-> res] >>

SignCalls(pc) == {p \in Workers : call[p] # << >> /\ call[p][1].pc = pc}

(* lines 40-41: the right to sign *)
Sign_check ==
    \E p \in Workers, user \in Users, waybill \in Documents,
       r \in DOMAIN RequiredRole :
        /\ call[p] = << >>
        /\ IF ~can_user_sign_required_role(user, RequiredRole[r])
           THEN /\ call' = call
                /\ lastOp' = LastOpSign("sign",
                      SignatureResult(FALSE, "PermissionDenied:slot", Signature,
                                      {}, FALSE),
                      user, waybill, RequiredRole[r])
           ELSE /\ call' = [call EXCEPT ![p] =
                               SignCall("get", user, waybill, r, << >>)]
                /\ lastOp' = LastOp("sign_step", TRUE, "", 0)
        /\ UNCHANGED << roleVars, authVars, pcVars, ftVars, txn, User, RoleSubstitution, Signature >>

(* get_or_create: self.get *)
Sign_get ==
    \E p \in SignCalls("get") :
        /\ LET c == call[p][1]
               found == Signature_objects_get(Signature, c.waybill,
                                              RequiredRole[c.req])
           IN  call' = [call EXCEPT ![p] =
                   IF Cardinality(found) > 1
                   THEN SignCall("return", c.user, c.waybill, c.req,
                            SignatureResult(FALSE, "MultipleObjectsReturned",
                                            << >>, {}, FALSE))
                   ELSE IF found # {}
                   THEN SignCall("return", c.user, c.waybill, c.req,
                            SignatureResult(TRUE, "", << >>, found, FALSE))
                   ELSE SignCall("create", c.user, c.waybill, c.req, << >>)]
        /\ lastOp' = LastOp("sign_step", TRUE, "", 0)
        /\ UNCHANGED << roleVars, authVars, pcVars, ftVars, txn, User, RoleSubstitution, Signature >>

(* get_or_create: self.create, and on IntegrityError self.get *)
Sign_create ==
    \E p \in SignCalls("create") :
        /\ LET c == call[p][1]
               created == Signature_objects_create(Signature, c.waybill,
                              RequiredRole[c.req], c.user)
               res == IF created.ok THEN created
                      ELSE Signature_objects_get_or_create(Signature, c.waybill,
                               RequiredRole[c.req], c.user)
           IN  /\ Signature' = res.Signature
               /\ call' = [call EXCEPT ![p] =
                              SignCall("return", c.user, c.waybill, c.req,
                                       [res EXCEPT !.Signature = << >>])]
        /\ lastOp' = LastOp("sign_step", TRUE, "", 0)
        /\ UNCHANGED << roleVars, authVars, pcVars, ftVars, txn, User, RoleSubstitution >>

(* lines 50-53 *)
Sign_return ==
    \E p \in SignCalls("return") :
        /\ LET c == call[p][1]
           IN  lastOp' = LastOpSign("sign", sign_waybill_result(c.user, c.res),
                                    c.user, c.waybill, RequiredRole[c.req])
        /\ call' = [call EXCEPT ![p] = << >>]
        /\ UNCHANGED << roleVars, authVars, pcVars, ftVars, txn, User, RoleSubstitution, Signature >>

(* the signature tables while the fuel ledger is at work *)
InitSignature ==
    /\ User = [u \in Users |-> u]
    /\ RoleSubstitution = {}
    /\ Signature = << >>
    /\ call = [p \in Workers |-> << >>]

----------------------------------------------------------------------------
(* Ledger snapshots created by hand: POST /passenger-car-odometer-fuel/    *)
(* and POST /fire-truck-odometer-fuel/                                     *)

(* a field the request leaves out: None in the instance *)
None == -1

(* the vehicle and the waybill that the requests name *)
ManualCars == {1}
ManualWaybills == {1}

(* request payloads: car, odometer and fuel may be left out, waybill 0 is  *)
(* no waybill                                                              *)
ManualStateInputs(cars, waybills) ==
    [car : cars \cup {None}, odometer : SeedOdometers \cup {None},
     fuel : SeedFuels \cup {None}, waybill : waybills \cup {0}, date : {1}]

(* clean_fields: a blank=True field that is None is skipped *)
OdometerFuel_clean_fields(self) ==
    /\ self.odometer = None \/ /\ PositiveIntegerField_ok(self.odometer)
                               /\ MaxValueValidator_ok(self.odometer)
    /\ self.fuel = None \/ /\ MinValueValidator_ok(self.fuel)
                           /\ DecimalValidator_ok(self.fuel)

CleanResult(ok, self) == [ok |-> ok, self |-> self]

(* the values before the trip in place of the values after it *)
OdometerFuel_clean_from_before_values(self, car, records) ==
    IF self.waybill # 0
    THEN IF records = {} /\ (self.odometer = None \/ self.fuel = None)
         THEN CleanResult(FALSE, self)
         ELSE CleanResult(TRUE,
                [self EXCEPT
                   !.car = IF self.car = None THEN car ELSE self.car,
                   !.odometer = IF self.odometer = None
                                THEN first_by_id(records).odometer_before
                                ELSE self.odometer,
                   !.fuel = IF self.fuel = None
                            THEN first_by_id(records).fuel_before_departure
                            ELSE self.fuel])
    ELSE CleanResult(self.car # None /\ self.odometer # None /\ self.fuel # None,
                     self)

(* clean() of OdometerFuelPassengerCar and of OdometerFuelFireTruck: car   *)
(* is waybill.car, records is waybill.records (the alive records)          *)
OdometerFuel_clean(self, car, records) ==
    IF self.waybill # 0
    THEN IF records = {} /\ (self.odometer = None \/ self.fuel = None)
         THEN CleanResult(FALSE, self)
         ELSE CleanResult(TRUE,
                [self EXCEPT
                   !.car = IF self.car = None THEN car ELSE self.car,
                   !.odometer = IF self.odometer = None
                                THEN first_by_id(records).odometer_after
                                ELSE self.odometer,
                   !.fuel = IF self.fuel = None
                            THEN first_by_id(records).fuel_on_return
                            ELSE self.fuel])
    ELSE CleanResult(self.car # None /\ self.odometer # None /\ self.fuel # None,
                     self)

(* save(): full_clean(), that is clean_fields() and then clean(), and the  *)
(* INSERT when both pass                                                   *)
OdometerFuel_save(tbl, self, car, records) ==
    IF ~OdometerFuel_clean_fields(self)
    THEN [ok |-> FALSE, err |-> "ValidationError:fields", states |-> tbl]
    ELSE LET cleaned == OdometerFuel_clean(self, car, records)
         IN  IF ~cleaned.ok
             THEN [ok |-> FALSE, err |-> "ValidationError:clean", states |-> tbl]
             ELSE [ok |-> TRUE, err |-> "", states |-> Append(tbl, cleaned.self)]

ManualRow(id, inp) ==
    [id |-> id, car |-> inp.car, odometer |-> inp.odometer, fuel |-> inp.fuel,
     date |-> inp.date, waybill |-> inp.waybill, deleted_at |-> NULL]

(* the response, with the payload of the request *)
LastOpManual(op, res, inp) ==
    [op |-> op, ok |-> res.ok, err |-> res.err, wb |-> inp.waybill,
     car |-> inp.car, odometer |-> inp.odometer, fuel |-> inp.fuel]

(* room for one snapshot created by hand after the commits *)
ManualBudget ==
    Len(OdometerFuelPassengerCar) + Len(OdometerFuelFireTruck) <= MaxStates

(* POST /passenger-car-odometer-fuel/ *)
OdometerFuelPassengerCar_post ==
    \E inp \in ManualStateInputs(ManualCars, ManualWaybills) :
        /\ ManualBudget
        /\ LET res == OdometerFuel_save(
                         OdometerFuelPassengerCar,
                         ManualRow(Len(OdometerFuelPassengerCar) + 1, inp),
                         IF inp.waybill = 0 THEN None
                         ELSE PassengerCarWaybill[inp.waybill].car,
                         {r \in objects(PassengerCarWaybillRecord) :
                             r.passenger_car_waybill = inp.waybill})
           IN  /\ OdometerFuelPassengerCar' = res.states
               /\ lastOp' = LastOpManual("pc_state_post", res, inp)
        /\ UNCHANGED << signVars, roleVars, authVars, NormsPassengerCars,
                        PassengerCarWaybill, PassengerCarWaybillRecord, ftVars,
                        txn >>

(* POST /fire-truck-odometer-fuel/ *)
OdometerFuelFireTruck_post ==
    \E inp \in ManualStateInputs(ManualCars, ManualWaybills) :
        /\ ManualBudget
        /\ LET res == OdometerFuel_save(
                         OdometerFuelFireTruck,
                         ManualRow(Len(OdometerFuelFireTruck) + 1, inp),
                         IF inp.waybill = 0 THEN None
                         ELSE FireTruckWaybill[inp.waybill].car,
                         {r \in objects(FireTruckWaybillRecord) :
                             r.fire_truck_waybill = inp.waybill})
           IN  /\ OdometerFuelFireTruck' = res.states
               /\ lastOp' = LastOpManual("ft_state_post", res, inp)
        /\ UNCHANGED << signVars, roleVars, authVars, NormsFireTruck,
                        FireTruckWaybill, FireTruckWaybillRecord, pcVars, txn >>

(* request payloads at and beyond the limits of the validators: the       *)
(* greatest odometer and the least fuel allowed, and one step beyond each  *)
LimitStateInputs ==
    { [car |-> 1, odometer |-> o, fuel |-> f, waybill |-> 0, date |-> 1] :
        <<o, f>> \in { <<MaxOdometer, 0>>, <<MaxOdometer + 1, 50000>>,
                      <<999980, -1>>, <<-1, 50000>> } }

(* POST /passenger-car-odometer-fuel/ with such a payload *)
OdometerFuelPassengerCar_post_limits ==
    \E inp \in LimitStateInputs :
        /\ ManualBudget
        /\ LET res == OdometerFuel_save(
                         OdometerFuelPassengerCar,
                         ManualRow(Len(OdometerFuelPassengerCar) + 1, inp),
                         None, {})
           IN  /\ OdometerFuelPassengerCar' = res.states
               /\ lastOp' = LastOpManual("pc_state_post", res, inp)
        /\ UNCHANGED << signVars, roleVars, authVars, NormsPassengerCars,
                        PassengerCarWaybill, PassengerCarWaybillRecord, ftVars,
                        txn >>

(* POST /fire-truck-odometer-fuel/ with such a payload *)
OdometerFuelFireTruck_post_limits ==
    \E inp \in LimitStateInputs :
        /\ ManualBudget
        /\ LET res == OdometerFuel_save(
                         OdometerFuelFireTruck,
                         ManualRow(Len(OdometerFuelFireTruck) + 1, inp),
                         None, {})
           IN  /\ OdometerFuelFireTruck' = res.states
               /\ lastOp' = LastOpManual("ft_state_post", res, inp)
        /\ UNCHANGED << signVars, roleVars, authVars, NormsFireTruck,
                        FireTruckWaybill, FireTruckWaybillRecord, pcVars, txn >>

(* DELETE /passenger-car-odometer-fuel/<id>/ : SoftDeleteModel.delete sets *)
(* deleted_at and calls save(update_fields=['deleted_at']), which runs      *)
(* full_clean() on the row first                                            *)
OdometerFuelPassengerCar_destroy ==
    \E s \in objects(OdometerFuelPassengerCar) :
        /\ LET ok == OdometerFuelPassengerCar_full_clean(s)
           IN  /\ OdometerFuelPassengerCar' =
                     IF ok THEN [OdometerFuelPassengerCar EXCEPT
                                    ![s.id].deleted_at = NOW]
                     ELSE OdometerFuelPassengerCar
               /\ lastOp' = LastOp("pc_state_destroy", ok,
                                   IF ok THEN "" ELSE "ValidationError:state", 0)
        /\ UNCHANGED << signVars, roleVars, authVars, NormsPassengerCars,
                        PassengerCarWaybill, PassengerCarWaybillRecord, ftVars,
                        txn >>

----------------------------------------------------------------------------
(* Roles and permissions: fuel/signals.py                                  *)
(*                                                                         *)
(* Role.name is unique and Permission.role is one-to-one, for all rows of  *)
(* the table, deleted ones included.  A Permission row keeps in granted    *)
(* the flags that are True.  The names of the default roles are written    *)
(* in Latin letters: Administrator, Mechanic, Driver.                      *)

(* the BooleanField columns of Permission *)
PermissionFields ==
    { "can_use_mobile_booking", "can_create_users", "can_delete_users",
      "can_update_users", "view_users", "can_create_fire_trucks",
      "can_delete_fire_trucks", "can_update_fire_trucks",
      "view_fire_trucks", "can_create_fire_truck_waybills",
      "can_delete_fire_truck_waybills", "can_update_fire_truck_waybills",
      "can_download_fire_truck_waybills", "view_fire_truck_waybills",
      "can_create_fire_truck_waybills_record",
      "can_delete_fire_truck_waybills_record",
      "can_update_fire_truck_waybills_record",
      "can_create_fire_truck_norms", "can_delete_fire_truck_norms",
      "can_update_fire_truck_norms", "view_fire_truck_norms",
      "can_download_fire_truck_reports", "view_fire_truck_reports",
      "can_create_passenger_cars", "can_delete_passenger_cars",
      "can_update_passenger_cars", "view_passenger_cars",
      "can_create_passenger_cars_waybills",
      "can_delete_passenger_cars_waybills",
      "can_update_passenger_cars_waybills",
      "can_download_passenger_cars_waybills",
      "view_passenger_cars_waybills",
      "can_create_passenger_cars_waybills_record",
      "can_delete_passenger_cars_waybills_record",
      "can_update_passenger_cars_waybills_record",
      "can_create_passenger_cars_norms",
      "can_delete_passenger_cars_norms",
      "can_update_passenger_cars_norms", "view_passenger_cars_norms",
      "can_download_passenger_cars_reports", "view_passenger_cars_reports" }


(* DEFAULT_ROLES: for each role its name, the keys of its "permissions"    *)
(* and the keys set to True.  In the key of line 171 a Cyrillic letter     *)
(* stands where "_" is written here.                                       *)
DEFAULT_ROLES ==
    <<
       [name |-> "Administrator",
        keys |->
          { "can_use_mobile_booking", "can_create_users",
            "can_delete_users", "can_update_users", "view_users",
            "can_create_fire_trucks", "can_delete_fire_trucks",
            "can_update_fire_trucks", "view_fire_trucks",
            "can_create_fire_truck_waybils",
            "can_delete_fire_truck_waybils",
            "can_update_fire_truck_waybils",
            "can_download_fire_truck_waybills", "view_fire_truck_waybils",
            "can_create_fire_truck_waybils_record",
            "can_delete_fire_truck_waybils_record",
            "can_update_fire_truck_waybils_record",
            "can_create_fire_truck_norms", "can_delete_fire_truck_norms",
            "can_update_fire_truck_norms", "view_fire_truck_norms",
            "can_download_fire_truck_reports", "view_fire_truck_reports",
            "can_create_passenger_cars", "can_delete_passenger_cars",
            "can_update_passenger_cars", "view_passenger_cars",
            "can_create_passenger_cars_waybills",
            "can_delete_passenger_cars_waybills",
            "can_update_passenger_cars_waybills",
            "can_download_passenger_cars_waybills",
            "view_passenger_cars_waybills",
            "can_create_passenger_cars_waybils_record",
            "can_delete_passenger_cars_waybils_record",
            "can_update_passenger_cars_waybils_record",
            "can_create_passenger_cars_norms",
            "can_delete_passenger_cars_norms",
            "can_update_passenger_cars_norms",
            "view_passenger_cars_norms",
            "can_download_passenger_cars_reports",
            "view_passenger_cars_reports" },
        granted |->
          { "can_use_mobile_booking", "can_create_users",
            "can_delete_users", "can_update_users", "view_users",
            "can_create_fire_trucks", "can_delete_fire_trucks",
            "can_update_fire_trucks", "view_fire_trucks",
            "can_create_fire_truck_waybils",
            "can_delete_fire_truck_waybils",
            "can_update_fire_truck_waybils",
            "can_download_fire_truck_waybills", "view_fire_truck_waybils",
            "can_create_fire_truck_waybils_record",
            "can_delete_fire_truck_waybils_record",
            "can_update_fire_truck_waybils_record",
            "can_create_fire_truck_norms", "can_delete_fire_truck_norms",
            "can_update_fire_truck_norms", "view_fire_truck_norms",
            "can_download_fire_truck_reports", "view_fire_truck_reports",
            "can_create_passenger_cars", "can_delete_passenger_cars",
            "can_update_passenger_cars", "view_passenger_cars",
            "can_create_passenger_cars_waybills",
            "can_delete_passenger_cars_waybills",
            "can_update_passenger_cars_waybills",
            "can_download_passenger_cars_waybills",
            "view_passenger_cars_waybills",
            "can_create_passenger_cars_waybils_record",
            "can_delete_passenger_cars_waybils_record",
            "can_update_passenger_cars_waybils_record",
            "can_create_passenger_cars_norms",
            "can_delete_passenger_cars_norms",
            "can_update_passenger_cars_norms",
            "view_passenger_cars_norms",
            "can_download_passenger_cars_reports",
            "view_passenger_cars_reports" }],
       [name |-> "Mechanic",
        keys |->
          { "can_use_mobile_booking", "can_create_users",
            "can_delete_users", "can_update_users", "view_users",
            "can_create_fire_trucks", "can_delete_fire_trucks",
            "can_update_fire_trucks", "view_fire_trucks",
            "can_create_fire_truck_waybils",
            "can_delete_fire_truck_waybils",
            "can_update_fire_truck_waybils",
            "can_download_fire_truck_waybills", "view_fire_truck_waybils",
            "can_create_fire_truck_waybils_record",
            "can_delete_fire_truck_waybils_record",
            "can_update_fire_truck_waybils_record",
            "can_create_fire_truck_norms", "can_delete_fire_truck_norms",
            "can_update_fire_truck_norms", "view_fire_truck_norms",
            "can_download_fire_truck_reports", "view_fire_truck_reports",
            "can_create_passenger_cars", "can_delete_passenger_cars",
            "can_update_passenger_cars", "view_passenger_cars",
            "can_create_passenger_cars_waybills",
            "can_delete_passenger_cars_waybills",
            "can_update_passenger_cars_waybills",
            "can_download_passenger_cars_waybills",
            "view_passenger_cars_waybills",
            "can_create_passenger_cars_waybils_record",
            "can_delete_passenger_cars_waybils_record",
            "can_update_passenger_cars_waybils_record",
            "can_create_passenger_cars_norms",
            "can_delete_passenger_cars_norms",
            "can_update_passenger_cars_norms",
            "view_passenger_cars_norms",
            "can_download_passenger_cars_reports",
            "view_passenger_cars_reports" },
        granted |->
          { "can_use_mobile_booking", "view_users",
            "can_create_fire_trucks", "can_update_fire_trucks",
            "view_fire_trucks", "can_create_fire_truck_waybils",
            "can_delete_fire_truck_waybils",
            "can_update_fire_truck_waybils",
            "can_download_fire_truck_waybills", "view_fire_truck_waybils",
            "can_create_fire_truck_waybils_record",
            "can_delete_fire_truck_waybils_record",
            "can_update_fire_truck_waybils_record",
            "can_create_fire_truck_norms", "can_delete_fire_truck_norms",
            "can_update_fire_truck_norms", "view_fire_truck_norms",
            "can_download_fire_truck_reports", "view_fire_truck_reports",
            "can_create_passenger_cars", "can_update_passenger_cars",
            "view_passenger_cars", "can_create_passenger_cars_waybills",
            "can_delete_passenger_cars_waybills",
            "can_update_passenger_cars_waybills",
            "can_download_passenger_cars_waybills",
            "view_passenger_cars_waybills",
            "can_create_passenger_cars_waybils_record",
            "can_delete_passenger_cars_waybils_record",
            "can_update_passenger_cars_waybils_record",
            "can_create_passenger_cars_norms",
            "can_delete_passenger_cars_norms",
            "can_update_passenger_cars_norms",
            "view_passenger_cars_norms",
            "can_download_passenger_cars_reports",
            "view_passenger_cars_reports" }],
       [name |-> "Driver",
        keys |->
          { "can_use_mobile_booking", "can_create_users",
            "can_delete_users", "can_update_users", "view_users",
            "can_create_fire_trucks", "can_delete_fire_trucks",
            "can_update_fire_trucks", "view_fire_trucks",
            "can_create_fire_truck_waybils",
            "can_delete_fire_truck_waybils",
            "can_update_fire_truck_waybils",
            "can_download_fire_truck_waybills", "view_fire_truck_waybils",
            "can_create_fire_truck_waybils_record",
            "can_delete_fire_truck_waybils_record",
            "can_update_fire_truck_waybils_record",
            "can_create_fire_truck_norms", "can_delete_fire_truck_norms",
            "can_update_fire_truck_norms", "view_fire_truck_norms",
            "can_download_fire_truck_reports", "view_fire_truck_reports",
            "can_create_passenger_cars", "can_delete_passenger_cars",
            "can_update_passenger_cars", "view_passenger_cars",
            "can_create_passenger_cars_waybills",
            "can_delete_passenger_cars_waybills",
            "can_update_passenger_cars_waybills",
            "can_download_passenger_cars_waybills",
            "view_passenger_cars_waybills",
            "can_create_passenger_cars_waybils_record",
            "can_delete_passenger_cars_waybils_record",
            "can_update_passenger_cars_way_ils_record",
            "can_create_passenger_cars_norms",
            "can_delete_passenger_cars_norms",
            "can_update_passenger_cars_norms",
            "view_passenger_cars_norms",
            "can_download_passenger_cars_reports",
            "view_passenger_cars_reports" },
        granted |->
          { "can_use_mobile_booking", "view_fire_trucks",
            "view_fire_truck_waybils",
            "can_create_fire_truck_waybils_record", "view_passenger_cars",
            "view_passenger_cars_waybills",
            "can_create_passenger_cars_waybils_record" }] >>

(* flags an operator grants in the Permission rows he writes *)
PermissionGrants == { {}, {"view_users"} }

RoleResult(ok, err, roles, role) ==
    [ok |-> ok, err |-> err, Role |-> roles, role |-> role]

PermissionResult(ok, err, perms) ==
    [ok |-> ok, err |-> err, Permission |-> perms]

(* Role.name, unique=True *)
Role_unique_name(roles, name) == ~ \E r \in RowsOf(roles) : r.name = name

(* Permission.role, OneToOneField *)
Permission_unique_role(perms, role) == ~ \E p \in RowsOf(perms) : p.role = role

(* Role.objects.get_or_create(name=role_name): get on the alive rows, then *)
(* create, and after an IntegrityError get once more                       *)
Role_objects_get_or_create(roles, name) ==
    LET found == {r \in objects(roles) : r.name = name}
    IN  IF found # {} THEN RoleResult(TRUE, "", roles, found)
        ELSE IF ~Role_unique_name(roles, name)
        THEN RoleResult(FALSE, "IntegrityError", roles, {})
        ELSE LET row == [id |-> Len(roles) + 1, name |-> name, deleted_at |-> NULL]
             IN  RoleResult(TRUE, "", Append(roles, row), {row})

(* Permission.objects.get_or_create(role=role, defaults=perm_data): get on *)
(* the alive rows; the keys of defaults are looked up among the fields of  *)
(* the model before the row is created                                     *)
Permission_objects_get_or_create(perms, role, role_def) ==
    LET found == {p \in objects(perms) : p.role = role.id}
    IN  IF found # {} THEN PermissionResult(TRUE, "", perms)
        ELSE IF role_def.keys \ PermissionFields # {}
        THEN PermissionResult(FALSE, "FieldError", perms)
        ELSE IF ~Permission_unique_role(perms, role.id)
        THEN PermissionResult(FALSE, "IntegrityError", perms)
        ELSE PermissionResult(TRUE, "",
                 Append(perms, [id |-> Len(perms) + 1, role |-> role.id,
                                granted |-> role_def.granted,
                                deleted_at |-> NULL]))

(* the loop of create_default_roles_and_permissions from entry i on; each  *)
(* get_or_create commits on its own, an exception ends the loop            *)
RECURSIVE create_default_roles_and_permissions_loop(_, _, _)
create_default_roles_and_permissions_loop(i, roles, perms) ==
    IF i > Len(DEFAULT_ROLES)
    THEN [ok |-> TRUE, err |-> "", Role |-> roles, Permission |-> perms]
    ELSE LET role_def == DEFAULT_ROLES[i]
             r == Role_objects_get_or_create(roles, role_def.name)
         IN  IF ~r.ok
             THEN [ok |-> FALSE, err |-> r.err, Role |-> r.Role,
                   Permission |-> perms]
             ELSE LET p == Permission_objects_get_or_create(
                                perms, first_by_id(r.role), role_def)
                  IN  IF ~p.ok
                      THEN [ok |-> FALSE, err |-> p.err, Role |-> r.Role,
                            Permission |-> perms]
                      ELSE create_default_roles_and_permissions_loop(
                               i + 1, r.Role, p.Permission)

(* post_migrate of the application 'fuel' *)
create_default_roles_and_permissions ==
    /\ LET res == create_default_roles_and_permissions_loop(1, Role, Permission)
       IN  /\ Role' = res.Role
           /\ Permission' = res.Permission
           /\ lastOp' = LastOp("seed", res.ok, res.err, 0)
    /\ UNCHANGED << signVars, authVars, pcVars, ftVars, txn >>

(* DELETE /roles/{id}/ *)
Role_destroy ==
    \E r \in objects(Role) :
        /\ Role' = [Role EXCEPT ![r.id].deleted_at = NOW]
        /\ lastOp' = LastOp("role_destroy", TRUE, "", 0)
        /\ UNCHANGED << Permission, signVars, authVars, pcVars, ftVars, txn >>

(* POST /permissions/ : role is chosen among Role.objects *)
Permission_create ==
    \E r \in objects(Role), granted \in PermissionGrants :
        /\ LET row == [id |-> Len(Permission) + 1, role |-> r.id,
                       granted |-> granted, deleted_at |-> NULL]
               err == IF \E p \in objects(Permission) : p.role = r.id THEN "400"
                      ELSE IF ~Permission_unique_role(Permission, r.id)
                      THEN "IntegrityError" ELSE ""
           IN  /\ Permission' = IF err = "" THEN Append(Permission, row)
                                ELSE Permission
               /\ lastOp' = LastOp("permission_create", err = "", err, 0)
        /\ UNCHANGED << Role, signVars, authVars, pcVars, ftVars, txn >>

(* PATCH /permissions/{id}/ : the operator edits the flags *)
Permission_update ==
    \E p \in objects(Permission), granted \in PermissionGrants :
        /\ granted # p.granted
        /\ Permission' = [Permission EXCEPT ![p.id].granted = granted]
        /\ lastOp' = LastOp("permission_update", TRUE, "", 0)
        /\ UNCHANGED << Role, signVars, authVars, pcVars, ftVars, txn >>

(* DELETE /permissions/{id}/ *)
Permission_destroy ==
    \E p \in objects(Permission) :
        /\ Permission' = [Permission EXCEPT ![p.id].deleted_at = NOW]
        /\ lastOp' = LastOp("permission_destroy", TRUE, "", 0)
        /\ UNCHANGED << Role, signVars, authVars, pcVars, ftVars, txn >>

(* the role and user tables while the ledger or the signatures are at work *)
InitAccounts ==
    /\ Role = << >>
    /\ Permission = << >>
    /\ UserAccount = << >>
    /\ Token = {}
    /\ clock = 0

----------------------------------------------------------------------------
(* Access tokens: fuel/auth.py, fuel/views_auth.py                         *)
(*                                                                         *)
(* The stored password of a user is a salted hash: it is a number here,    *)
(* and every set_password gives the user a number he never had in a token. *)
(* The clock counts minutes.                                               *)

ACCESS_TOKEN_LIFETIME_MINUTES == 60

JWT_SECRET == "SECRET_KEY"

(* the instants at which requests arrive *)
Clock == {0, 30, 60}

(* users whose password an operator changes or whom he deletes *)
ChangingUsers == {1}

RawPasswords == {"right", "wrong"}

(* _password_fingerprint(user) *)
password_fingerprint(user) == [sha256 |-> user.password]

(* create_access_token(user): the payload, signed with JWT_SECRET *)
create_access_token(user) ==
    [sub |-> user.id, pwd_fp |-> {password_fingerprint(user)},
     exp |-> clock + ACCESS_TOKEN_LIFETIME_MINUTES, key |-> JWT_SECRET]

(* a token somebody signs with a key of his own for a user *)
ForgedTokens ==
    {[create_access_token(u) EXCEPT !.key = "other"] : u \in objects(UserAccount)}

(* decode_access_token: jwt.decode checks the signature and exp *)
decode_access_token(token) ==
    IF token.key # JWT_SECRET THEN "InvalidTokenError"
    ELSE IF token.exp <= clock THEN "ExpiredSignatureError"
    ELSE ""

(* authenticate without the comparison of the fingerprints *)
JWTAuthentication_authenticate_any_password(token) ==
    LET user == {u \in objects(UserAccount) : u.id = token.sub}
    IN  IF decode_access_token(token) # "" THEN decode_access_token(token)
        ELSE IF user = {} THEN "AuthenticationFailed:user"
        ELSE IF token.pwd_fp = {} THEN "AuthenticationFailed:pwd_fp"
        ELSE ""

(* JWTAuthentication.authenticate with a Bearer token: "" when the user is *)
(* authenticated, else the exception                                       *)
JWTAuthentication_authenticate(token) ==
    LET user == {u \in objects(UserAccount) : u.id = token.sub}
    IN  IF decode_access_token(token) # "" THEN decode_access_token(token)
        ELSE IF user = {} THEN "AuthenticationFailed:user"
        ELSE IF token.pwd_fp = {} THEN "AuthenticationFailed:pwd_fp"
        ELSE IF token.pwd_fp # {password_fingerprint(first_by_id(user))}
        THEN "AuthenticationFailed:password"
        ELSE ""

(* the stored passwords of user u that a token carries the fingerprint of *)
PasswordsInTokens(u) ==
    {p \in 1..MaxPasswords :
        \E t \in Token : t.sub = u /\ t.pwd_fp = {[sha256 |-> p]}}

(* make_password(raw): a hash the user did not have before *)
make_password(user) ==
    CHOOSE p \in 1..(MaxPasswords + 1) :
        /\ p > user.password
        /\ \A q \in PasswordsInTokens(user.id) : p > q
        /\ \A q \in 1..(MaxPasswords + 1) :
              (q > user.password /\ \A r \in PasswordsInTokens(user.id) : q > r)
                 => p <= q

LastOpAuth(op, err, sub, token) ==
    [op |-> op, ok |-> err = "", err |-> err, wb |-> 0, sub |-> sub,
     token |-> token]

(* POST /api/auth/login/ *)
LoginView_post ==
    \E login \in {u.login : u \in RowsOf(UserAccount)},
       password \in RawPasswords :
        /\ Cardinality(Token) < MaxTokens
        /\ LET user == {u \in objects(UserAccount) : u.login = login}
           IN  IF user = {} \/ password # "right"
               THEN /\ Token' = Token
                    /\ lastOp' = LastOpAuth("login", "401", 0, {})
               ELSE LET token == create_access_token(first_by_id(user))
                    IN  /\ Token' = Token \cup {token}
                        /\ lastOp' = LastOpAuth("login", "", token.sub, {token})
        /\ UNCHANGED << UserAccount, clock, signVars, roleVars, pcVars, ftVars,
                        txn >>

(* PATCH /users/{id}/ with a password: instance.set_password(password) *)
User_set_password ==
    \E u \in objects(UserAccount) :
        /\ u.id \in ChangingUsers
        /\ make_password(u) <= MaxPasswords
        /\ UserAccount' = [UserAccount EXCEPT ![u.id].password = make_password(u)]
        /\ lastOp' = LastOpAuth("user_set_password", "", u.id, {})
        /\ UNCHANGED << Token, clock, signVars, roleVars, pcVars, ftVars, txn >>

(* admin, change of a user: the password field takes a hash as it is       *)
(* (User.save hashes only what identify_hasher does not know), here a hash *)
(* the user had before                                                     *)
User_admin_save ==
    \E u \in objects(UserAccount), p \in 1..MaxPasswords :
        /\ u.id \in ChangingUsers
        /\ p \in PasswordsInTokens(u.id)
        /\ p # u.password
        /\ UserAccount' = [UserAccount EXCEPT ![u.id].password = p]
        /\ lastOp' = LastOpAuth("user_admin_save", "", u.id, {})
        /\ UNCHANGED << Token, clock, signVars, roleVars, pcVars, ftVars, txn >>

(* DELETE /users/{id}/ *)
User_destroy ==
    \E u \in objects(UserAccount) :
        /\ u.id \in ChangingUsers
        /\ UserAccount' = [UserAccount EXCEPT ![u.id].deleted_at = NOW]
        /\ lastOp' = LastOpAuth("user_destroy", "", u.id, {})
        /\ UNCHANGED << Token, clock, signVars, roleVars, pcVars, ftVars, txn >>

(* a request with Authorization: Bearer <token> *)
JWTAuthentication_request ==
    \E token \in Token \cup ForgedTokens :
        /\ lastOp' = LastOpAuth("request", JWTAuthentication_authenticate(token),
                                token.sub, {token})
        /\ UNCHANGED << UserAccount, Token, clock, signVars, roleVars, pcVars,
                        ftVars, txn >>

(* time passes *)
Tick ==
    /\ clock + 30 \in Clock
    /\ clock' = clock + 30
    /\ lastOp' = LastOp("tick", TRUE, "", 0)
    /\ UNCHANGED << UserAccount, Token, signVars, roleVars, pcVars, ftVars, txn >>

----------------------------------------------------------------------------
(* Specification *)

Init ==
    /\ NormsPassengerCars = <<
          [id |-> 1, car |-> 1, season |-> "summer", city_norm |-> 100,
           area_norm |-> 80, date |-> 1, deleted_at |-> NULL],
          [id |-> 2, car |-> 2, season |-> "winter", city_norm |-> 120,
           area_norm |-> 90, date |-> 2, deleted_at |-> NULL] >>
    /\ PassengerCarWaybill = << NewWaybill(1, 1, 2, "summer"),
                                NewWaybill(2, 1, 1, "summer"),
                                NewWaybill(3, 2, 1, "winter"),
                                NewWaybill(4, 2, 2, "winter") >>
    /\ PassengerCarWaybillRecord = << >>
    /\ OdometerFuelPassengerCar = << >>
    /\ NormsFireTruck = <<
          [id |-> 1, car |-> 1, season |-> "summer", with_pump_norm |-> 500,
           without_pump_norm |-> 200, km_norm |-> 300, date |-> 1,
           deleted_at |-> NULL] >>
    /\ FireTruckWaybill = << NewWaybill(1, 1, 2, "summer"),
                             NewWaybill(2, 1, 1, "winter") >>
    /\ FireTruckWaybillRecord = << >>
    /\ OdometerFuelFireTruck = << >>
    /\ lastOp = LastOp("init", TRUE, "", 0)
    /\ txn = [p \in Workers |-> << >>]
    /\ InitSignature
    /\ InitAccounts

Next ==
    \/ OdometerFuelPassengerCar_create
    \/ PassengerCarWaybillRecord_create
    \/ PassengerCarWaybillRecord_update
    \/ OdometerFuelFireTruck_create
    \/ FireTruckWaybillRecord_create
    \/ FireTruckWaybillRecord_update

Spec == Init /\ [][Next]_vars

(* Trip-record commits and seeding only: no edit of a committed record *)
NextCommit ==
    \/ OdometerFuelPassengerCar_create
    \/ PassengerCarWaybillRecord_create
    \/ OdometerFuelFireTruck_create
    \/ FireTruckWaybillRecord_create

SpecCommit == Init /\ [][NextCommit]_vars

(* Every request that writes the ledger: seeding, commit, edit and soft *)
(* delete of trip records                                               *)
NextLedger ==
    \/ OdometerFuelPassengerCar_create
    \/ PassengerCarWaybillRecord_create
    \/ PassengerCarWaybillRecord_update
    \/ PassengerCarWaybillRecord_destroy
    \/ OdometerFuelFireTruck_create
    \/ FireTruckWaybillRecord_create
    \/ FireTruckWaybillRecord_update
    \/ FireTruckWaybillRecord_destroy

SpecLedger == Init /\ [][NextLedger]_vars

(* The requests of the API on passenger-car trip records: commit, re-save *)
(* with the same or with another waybill, and soft delete                 *)
NextRecords ==
    \/ OdometerFuelPassengerCar_create
    \/ PassengerCarWaybillRecord_create
    \/ PassengerCarWaybillRecord_update
    \/ PassengerCarWaybillRecord_update_waybill
    \/ PassengerCarWaybillRecord_destroy

SpecRecords == Init /\ [][NextRecords]_vars

(* Norm tables: the waybills of Init, no norm yet; norms are created, *)
(* soft-deleted and resolved for a date                               *)
InitNorms ==
    /\ NormsPassengerCars = << >>
    /\ PassengerCarWaybill = << NewWaybill(1, 1, 2, "summer"),
                                NewWaybill(2, 1, 1, "summer"),
                                NewWaybill(3, 2, 1, "winter"),
                                NewWaybill(4, 2, 2, "winter") >>
    /\ PassengerCarWaybillRecord = << >>
    /\ OdometerFuelPassengerCar = << >>
    /\ NormsFireTruck = << >>
    /\ FireTruckWaybill = << NewWaybill(1, 1, 2, "summer"),
                             NewWaybill(2, 1, 1, "winter") >>
    /\ FireTruckWaybillRecord = << >>
    /\ OdometerFuelFireTruck = << >>
    /\ lastOp = LastOp("init", TRUE, "", 0)
    /\ txn = [p \in Workers |-> << >>]
    /\ InitSignature
    /\ InitAccounts

NextNorms ==
    \/ NormsPassengerCars_create
    \/ NormsPassengerCars_destroy
    \/ NormsPassengerCarsViewSet_for_date
    \/ NormsFireTruck_create
    \/ NormsFireTruck_destroy
    \/ NormsFireTruckViewSet_for_date

SpecNorms == InitNorms /\ [][NextNorms]_vars

(* Commits interleaved with the creation of norms: no norm yet, and either *)
(* passenger car 1 or the fire truck seeded                                *)
InitVintage ==
    /\ NormsPassengerCars = << >>
    /\ PassengerCarWaybill = << NewWaybill(1, 1, 2, "summer"),
                                NewWaybill(2, 1, 1, "summer") >>
    /\ PassengerCarWaybillRecord = << >>
    /\ NormsFireTruck = << >>
    /\ FireTruckWaybill = << NewWaybill(1, 1, 2, "summer"),
                             NewWaybill(2, 1, 1, "winter") >>
    /\ FireTruckWaybillRecord = << >>
    /\ \/ /\ OdometerFuelPassengerCar =
                << [id |-> 1, car |-> 1, odometer |-> 1000, fuel |-> 50000,
                    date |-> 1, waybill |-> 0, deleted_at |-> NULL] >>
          /\ OdometerFuelFireTruck = << >>
       \/ /\ OdometerFuelPassengerCar = << >>
          /\ OdometerFuelFireTruck =
                << [id |-> 1, car |-> 1, odometer |-> 999980, fuel |-> 50000,
                    date |-> 1, waybill |-> 0, deleted_at |-> NULL] >>
    /\ lastOp = LastOp("init", TRUE, "", 0)
    /\ txn = [p \in Workers |-> << >>]
    /\ InitSignature
    /\ InitAccounts

NextVintage ==
    \/ NormsPassengerCars_create
    \/ PassengerCarWaybillRecord_create
    \/ NormsFireTruck_create
    \/ FireTruckWaybillRecord_create

SpecVintage == InitVintage /\ [][NextVintage]_vars

(* The worked example: the norms and waybills of Init, passenger car 1 *)
(* seeded at 1000 km with 50 l                                         *)
InitExample ==
    /\ NormsPassengerCars = <<
          [id |-> 1, car |-> 1, season |-> "summer", city_norm |-> 100,
           area_norm |-> 80, date |-> 1, deleted_at |-> NULL],
          [id |-> 2, car |-> 2, season |-> "winter", city_norm |-> 120,
           area_norm |-> 90, date |-> 2, deleted_at |-> NULL] >>
    /\ PassengerCarWaybill = << NewWaybill(1, 1, 2, "summer"),
                                NewWaybill(2, 1, 1, "summer"),
                                NewWaybill(3, 2, 1, "winter"),
                                NewWaybill(4, 2, 2, "winter") >>
    /\ PassengerCarWaybillRecord = << >>
    /\ OdometerFuelPassengerCar =
          << [id |-> 1, car |-> 1, odometer |-> 1000, fuel |-> 50000,
              date |-> 1, waybill |-> 0, deleted_at |-> NULL] >>
    /\ NormsFireTruck = <<
          [id |-> 1, car |-> 1, season |-> "summer", with_pump_norm |-> 500,
           without_pump_norm |-> 200, km_norm |-> 300, date |-> 1,
           deleted_at |-> NULL] >>
    /\ FireTruckWaybill = << NewWaybill(1, 1, 2, "summer"),
                             NewWaybill(2, 1, 1, "winter") >>
    /\ FireTruckWaybillRecord = << >>
    /\ OdometerFuelFireTruck = << >>
    /\ lastOp = LastOp("init", TRUE, "", 0)
    /\ txn = [p \in Workers |-> << >>]
    /\ InitSignature
    /\ InitAccounts

SpecExample == InitExample /\ [][NextCommit]_vars

(* Soft delete of norms and trip records of passenger cars, by the API     *)
(* (instance.delete()) and by the admin (queryset.delete())                *)
NextSoftDelete ==
    \/ OdometerFuelPassengerCar_create
    \/ PassengerCarWaybillRecord_create
    \/ PassengerCarWaybillRecord_destroy
    \/ PassengerCarWaybillRecord_delete_selected
    \/ NormsPassengerCars_destroy
    \/ NormsPassengerCars_delete_selected

SpecSoftDelete == Init /\ [][NextSoftDelete]_vars

(* Seeding of the default roles at post_migrate, and the operator's        *)
(* requests on roles and permissions in between; the tables start empty.   *)
NextRoles ==
    \/ create_default_roles_and_permissions
    \/ Role_destroy
    \/ Permission_create
    \/ Permission_update
    \/ Permission_destroy

SpecRoles == Init /\ [][NextRoles]_vars

(* Snapshots created by hand among the commits: a request may leave out    *)
(* car, odometer or fuel and may name a waybill                            *)
NextManual ==
    \/ OdometerFuelPassengerCar_post
    \/ PassengerCarWaybillRecord_create
    \/ OdometerFuelFireTruck_post
    \/ FireTruckWaybillRecord_create

SpecManual == Init /\ [][NextManual]_vars

(* The same with payloads at and beyond the limits of odometer and fuel *)
NextLimits ==
    \/ NextManual
    \/ OdometerFuelPassengerCar_post_limits
    \/ OdometerFuelFireTruck_post_limits

SpecLimits == Init /\ [][NextLimits]_vars

(* Commits of passenger car 1 among soft deletes of its snapshots and of   *)
(* its norms: the car has two summer norms of the same date with rates of  *)
(* their own and one seed snapshot                                         *)
InitTombstone ==
    /\ NormsPassengerCars = <<
          [id |-> 1, car |-> 1, season |-> "summer", city_norm |-> 100,
           area_norm |-> 80, date |-> 1, deleted_at |-> NULL],
          [id |-> 2, car |-> 1, season |-> "summer", city_norm |-> 120,
           area_norm |-> 90, date |-> 1, deleted_at |-> NULL] >>
    /\ PassengerCarWaybill = << NewWaybill(1, 1, 2, "summer"),
                                NewWaybill(2, 1, 1, "summer") >>
    /\ PassengerCarWaybillRecord = << >>
    /\ OdometerFuelPassengerCar =
          << [id |-> 1, car |-> 1, odometer |-> 1000, fuel |-> 50000,
              date |-> 1, waybill |-> 0, deleted_at |-> NULL] >>
    /\ NormsFireTruck = << >>
    /\ FireTruckWaybill = << >>
    /\ FireTruckWaybillRecord = << >>
    /\ OdometerFuelFireTruck = << >>
    /\ lastOp = LastOp("init", TRUE, "", 0)
    /\ txn = [p \in Workers |-> << >>]
    /\ InitSignature
    /\ InitAccounts

NextTombstone ==
    \/ OdometerFuelPassengerCar_create
    \/ PassengerCarWaybillRecord_create
    \/ OdometerFuelPassengerCar_destroy
    \/ NormsPassengerCars_destroy

SpecTombstone == InitTombstone /\ [][NextTombstone]_vars

(* Logins, requests with a token and changes of users.  Two users are      *)
(* registered; user 1 holds a token of the time before tokens carried a    *)
(* fingerprint of the password.                                            *)
InitAuth ==
    /\ NormsPassengerCars = << >>
    /\ PassengerCarWaybill = << >>
    /\ PassengerCarWaybillRecord = << >>
    /\ OdometerFuelPassengerCar = << >>
    /\ NormsFireTruck = << >>
    /\ FireTruckWaybill = << >>
    /\ FireTruckWaybillRecord = << >>
    /\ OdometerFuelFireTruck = << >>
    /\ lastOp = LastOp("init", TRUE, "", 0)
    /\ txn = [p \in Workers |-> << >>]
    /\ InitSignature
    /\ Role = << >>
    /\ Permission = << >>
    /\ UserAccount = << [id |-> 1, login |-> "ivanov", password |-> 1,
                         deleted_at |-> NULL],
                        [id |-> 2, login |-> "petrov", password |-> 1,
                         deleted_at |-> NULL] >>
    /\ Token = { [sub |-> 1, pwd_fp |-> {}, exp |-> 60, key |-> JWT_SECRET] }
    /\ clock = 0

NextAuth ==
    \/ LoginView_post
    \/ User_set_password
    \/ User_admin_save
    \/ User_destroy
    \/ JWTAuthentication_request
    \/ Tick

SpecAuth == InitAuth /\ [][NextAuth]_vars

(* The signature workflow on its own: no trip is recorded.  The            *)
(* administrator has registered any of the substitution rows.              *)
InitSign ==
    /\ NormsPassengerCars = << >>
    /\ PassengerCarWaybill = << >>
    /\ PassengerCarWaybillRecord = << >>
    /\ OdometerFuelPassengerCar = << >>
    /\ NormsFireTruck = << >>
    /\ FireTruckWaybill = << >>
    /\ FireTruckWaybillRecord = << >>
    /\ OdometerFuelFireTruck = << >>
    /\ lastOp = LastOp("init", TRUE, "", 0)
    /\ txn = [p \in Workers |-> << >>]
    /\ User = [u \in Users |-> u]
    /\ RoleSubstitution \in SUBSET SubstitutionRows
    /\ Signature = << >>
    /\ call = [p \in Workers |-> << >>]
    /\ InitAccounts

NextSign ==
    \/ sign_waybill_for_required_role_call
    \/ User_update

SpecSign == InitSign /\ [][NextSign]_vars

(* Sign calls of two requests, statement by statement *)
NextSignConc ==
    \/ Sign_check
    \/ Sign_get
    \/ Sign_create
    \/ Sign_return

SpecSignConc == InitSign /\ [][NextSignConc]_vars

----------------------------------------------------------------------------
(* Vocabulary of the properties *)

PCWaybillOf(r) == PassengerCarWaybill[r.passenger_car_waybill]

FTWaybillOf(r) == FireTruckWaybill[r.fire_truck_waybill]

PCRecordsOf(car) ==
    {r \in RowsOf(PassengerCarWaybillRecord) : PCWaybillOf(r).car = car}

FTRecordsOf(car) ==
    {r \in RowsOf(FireTruckWaybillRecord) : FTWaybillOf(r).car = car}

(* s is the latest alive snapshot of car: greatest date, then greatest id *)
IsChainLatest(s, states, car) ==
    /\ s \in RowsOf(states) /\ s.deleted_at = NULL /\ s.car = car
    /\ \A q \in RowsOf(states) :
          (q.deleted_at = NULL /\ q.car = car) =>
              (q.date < s.date \/ (q.date = s.date /\ q.id <= s.id))

HasState(states, car) == \E s \in RowsOf(states) : IsChainLatest(s, states, car)

CurrentOdometer(states, car) ==
    (CHOOSE s \in RowsOf(states) : IsChainLatest(s, states, car)).odometer

(* the row a successful create step has just inserted *)
NewRow(tbl) == tbl[Len(tbl)]

IsPrefix(old, new) ==
    Len(old) <= Len(new) /\ \A i \in DOMAIN old : new[i] = old[i]

PCCommitted == lastOp.op = "pc_record_create" /\ lastOp.ok

FTCommitted == lastOp.op = "ft_record_create" /\ lastOp.ok

----------------------------------------------------------------------------
PCChainBefore(q, r) ==
    \/ PCWaybillOf(q).date < PCWaybillOf(r).date
    \/ (PCWaybillOf(q).date = PCWaybillOf(r).date /\ q.id < r.id)

FTChainBefore(q, r) ==
    \/ FTWaybillOf(q).date < FTWaybillOf(r).date
    \/ (FTWaybillOf(q).date = FTWaybillOf(r).date /\ q.id < r.id)

(* C1: chain continuity.  For a vehicle with one seed snapshot, the records  *)
(* taken in chain order (date of their snapshot, i.e. of their waybill, then *)
(* id) each start at the odometer where the previous one ended, the first at *)
(* the seed's odometer.                                                      *)

C1_ChainContinuity ==
    /\ \A car \in PassengerCars :
        LET seeds == {s \in RowsOf(OdometerFuelPassengerCar) :
                         s.car = car /\ s.waybill = 0}
        IN  Cardinality(seeds) = 1 =>
            \A r \in PCRecordsOf(car) :
                LET preds == {q \in PCRecordsOf(car) : PCChainBefore(q, r)}
                IN  IF preds = {}
                    THEN \A s \in seeds : r.odometer_before = s.odometer
                    ELSE \E p \in preds :
                            /\ \A q \in preds : q = p \/ PCChainBefore(q, p)
                            /\ r.odometer_before = p.odometer_after
    /\ \A car \in FireTrucks :
        LET seeds == {s \in RowsOf(OdometerFuelFireTruck) :
                         s.car = car /\ s.waybill = 0}
        IN  Cardinality(seeds) = 1 =>
            \A r \in FTRecordsOf(car) :
                LET preds == {q \in FTRecordsOf(car) : FTChainBefore(q, r)}
                IN  IF preds = {}
                    THEN \A s \in seeds : r.odometer_before = s.odometer
                    ELSE \E p \in preds :
                            /\ \A q \in preds : q = p \/ FTChainBefore(q, p)
                            /\ r.odometer_before = p.odometer_after

----------------------------------------------------------------------------
(* C2: a successful commit of a new trip record sets odometer_before and     *)
(* fuel_before_departure to the odometer and fuel of the vehicle's latest    *)
(* alive snapshot (greatest date, then greatest id) of the state before it.  *)

C2_StartValuesFromLatestSnapshot ==
    [][ /\ (PCCommitted' =>
              \E s \in RowsOf(OdometerFuelPassengerCar) :
                 /\ IsChainLatest(s, OdometerFuelPassengerCar,
                                  PassengerCarWaybill[lastOp'.wb].car)
                 /\ NewRow(PassengerCarWaybillRecord').odometer_before = s.odometer
                 /\ NewRow(PassengerCarWaybillRecord').fuel_before_departure = s.fuel)
        /\ (FTCommitted' =>
              \E s \in RowsOf(OdometerFuelFireTruck) :
                 /\ IsChainLatest(s, OdometerFuelFireTruck,
                                  FireTruckWaybill[lastOp'.wb].car)
                 /\ NewRow(FireTruckWaybillRecord').odometer_before = s.odometer
                 /\ NewRow(FireTruckWaybillRecord').fuel_before_departure = s.fuel)
      ]_vars

(* a commit whose predecessor was not the snapshot inserted last: the new   *)
(* record starts from a snapshot that has a later date and a smaller id     *)
C2_Witness ==
    /\ PCCommitted
    /\ \E s, q \in RowsOf(OdometerFuelPassengerCar) :
          /\ s.car = PCWaybillOf(NewRow(PassengerCarWaybillRecord)).car
          /\ q.car = s.car
          /\ q.id < Len(OdometerFuelPassengerCar)
          /\ s.id < q.id /\ s.date > q.date
          /\ s.odometer # q.odometer
          /\ NewRow(PassengerCarWaybillRecord).odometer_before = s.odometer
----------------------------------------------------------------------------
(* C3: monotonic odometer.  Across every trip-record commit, successful or  *)
(* not and whatever the date of its waybill, the vehicle's current odometer *)
(* (odometer of its latest alive snapshot) does not decrease.               *)

C3_MonotonicOdometer ==
    [][ /\ (lastOp'.op = "pc_record_create" =>
              \A car \in PassengerCars :
                 HasState(OdometerFuelPassengerCar, car) =>
                    /\ HasState(OdometerFuelPassengerCar', car)
                    /\ CurrentOdometer(OdometerFuelPassengerCar', car)
                          >= CurrentOdometer(OdometerFuelPassengerCar, car))
        /\ (lastOp'.op = "ft_record_create" =>
              \A car \in FireTrucks :
                 HasState(OdometerFuelFireTruck, car) =>
                    /\ HasState(OdometerFuelFireTruck', car)
                    /\ CurrentOdometer(OdometerFuelFireTruck', car)
                          >= CurrentOdometer(OdometerFuelFireTruck, car))
      ]_vars

(* a commit on a waybill dated before the vehicle's latest snapshot: the *)
(* snapshot it appended shows more kilometres than the current odometer  *)
C3_Witness ==
    /\ PCCommitted
    /\ \E s \in RowsOf(OdometerFuelPassengerCar) :
          /\ IsChainLatest(s, OdometerFuelPassengerCar, s.car)
          /\ s.car = NewRow(OdometerFuelPassengerCar).car
          /\ s.date > NewRow(OdometerFuelPassengerCar).date
          /\ s.odometer < NewRow(OdometerFuelPassengerCar).odometer

----------------------------------------------------------------------------
(* C4: one snapshot per committed record.  For every vehicle the number of *)
(* waybill-linked snapshots equals the number of its trip records, after   *)
(* any sequence of commits and edits.                                      *)

C4_OneSnapshotPerRecord ==
    /\ \A car \in PassengerCars :
          Cardinality({s \in RowsOf(OdometerFuelPassengerCar) :
                          s.car = car /\ s.waybill # 0})
             = Cardinality(PCRecordsOf(car))
    /\ \A car \in FireTrucks :
          Cardinality({s \in RowsOf(OdometerFuelFireTruck) :
                          s.car = car /\ s.waybill # 0})
             = Cardinality(FTRecordsOf(car))

----------------------------------------------------------------------------
(* C5: an edit (re-save) of a committed trip record keeps the record's     *)
(* stored odometer_before and fuel_before_departure.                       *)

C5_EditKeepsStartValues ==
    [][ /\ ((lastOp'.op = "pc_record_update" /\ lastOp'.ok) =>
              \A i \in DOMAIN PassengerCarWaybillRecord :
                 /\ PassengerCarWaybillRecord'[i].odometer_before
                       = PassengerCarWaybillRecord[i].odometer_before
                 /\ PassengerCarWaybillRecord'[i].fuel_before_departure
                       = PassengerCarWaybillRecord[i].fuel_before_departure)
        /\ ((lastOp'.op = "ft_record_update" /\ lastOp'.ok) =>
              \A i \in DOMAIN FireTruckWaybillRecord :
                 /\ FireTruckWaybillRecord'[i].odometer_before
                       = FireTruckWaybillRecord[i].odometer_before
                 /\ FireTruckWaybillRecord'[i].fuel_before_departure
                       = FireTruckWaybillRecord[i].fuel_before_departure)
      ]_vars

----------------------------------------------------------------------------
(* C6: a commit for a vehicle without an alive snapshot fails, and leaves  *)
(* the trip records, the ledger and the waybill aggregates as they were.   *)

C6_NoSeedCommitFails ==
    [][ /\ ((/\ lastOp'.op = "pc_record_create"
             /\ ~HasState(OdometerFuelPassengerCar,
                          PassengerCarWaybill[lastOp'.wb].car)) =>
              (~lastOp'.ok /\ UNCHANGED pcVars))
        /\ ((/\ lastOp'.op = "ft_record_create"
             /\ ~HasState(OdometerFuelFireTruck,
                          FireTruckWaybill[lastOp'.wb].car)) =>
              (~lastOp'.ok /\ UNCHANGED ftVars))
      ]_vars

(* the commit failed for want of a snapshot while another car had one *)
C6_Witness ==
    /\ lastOp.op = "pc_record_create"
    /\ ~lastOp.ok
    /\ lastOp.err = "ValidationError:last_state"
    /\ ~HasState(OdometerFuelPassengerCar, PassengerCarWaybill[lastOp.wb].car)
    /\ OdometerFuelPassengerCar # << >>

----------------------------------------------------------------------------
NoNorm(norms, wb) ==
    ~\E n \in RowsOf(norms) :
        /\ n.deleted_at = NULL
        /\ n.car = wb.car
        /\ n.season = wb.norm_season
        /\ n.date <= wb.date

(* C7: when no alive norm of the waybill's vehicle and season has a date   *)
(* at or before the waybill's date, a commit or edit fails and leaves the  *)
(* trip records, the ledger and the waybill aggregates as they were.       *)

C7_NoNormCommitFails ==
    [][ /\ ((/\ lastOp'.op \in {"pc_record_create", "pc_record_update"}
             /\ NoNorm(NormsPassengerCars, PassengerCarWaybill[lastOp'.wb])) =>
              (~lastOp'.ok /\ UNCHANGED pcVars))
        /\ ((/\ lastOp'.op \in {"ft_record_create", "ft_record_update"}
             /\ NoNorm(NormsFireTruck, FireTruckWaybill[lastOp'.wb])) =>
              (~lastOp'.ok /\ UNCHANGED ftVars))
      ]_vars

(* a seeded car whose only norm is dated after the waybill: the commit *)
(* failed at norm resolution                                           *)
C7_Witness ==
    /\ lastOp.op = "pc_record_create"
    /\ ~lastOp.ok
    /\ lastOp.err = "ValidationError:norm"
    /\ HasState(OdometerFuelPassengerCar, PassengerCarWaybill[lastOp.wb].car)
    /\ NoNorm(NormsPassengerCars, PassengerCarWaybill[lastOp.wb])

----------------------------------------------------------------------------
(* C8: all-or-nothing commit.  In every reachable state each trip record   *)
(* has the snapshot its save appended (same vehicle, waybill, date,        *)
(* odometer_after and fuel_on_return), and each waybill-linked snapshot    *)
(* belongs to a waybill that has a trip record.                            *)

C8_AllOrNothing ==
    /\ \A r \in RowsOf(PassengerCarWaybillRecord) :
          \E s \in RowsOf(OdometerFuelPassengerCar) :
             /\ s.waybill = r.passenger_car_waybill
             /\ s.car = PCWaybillOf(r).car
             /\ s.date = PCWaybillOf(r).date
             /\ s.odometer = r.odometer_after
             /\ s.fuel = r.fuel_on_return
    /\ \A s \in RowsOf(OdometerFuelPassengerCar) :
          s.waybill # 0 =>
             \E r \in RowsOf(PassengerCarWaybillRecord) :
                r.passenger_car_waybill = s.waybill
    /\ \A r \in RowsOf(FireTruckWaybillRecord) :
          \E s \in RowsOf(OdometerFuelFireTruck) :
             /\ s.waybill = r.fire_truck_waybill
             /\ s.car = FTWaybillOf(r).car
             /\ s.date = FTWaybillOf(r).date
             /\ s.odometer = r.odometer_after
             /\ s.fuel = r.fuel_on_return
    /\ \A s \in RowsOf(OdometerFuelFireTruck) :
          s.waybill # 0 =>
             \E r \in RowsOf(FireTruckWaybillRecord) :
                r.fire_truck_waybill = s.waybill

(* a commit that failed at the validation of its snapshot, after the *)
(* record had been written, with an earlier record in place          *)
C8_Witness ==
    /\ lastOp.op \in {"pc_record_create", "ft_record_create"}
    /\ ~lastOp.ok
    /\ lastOp.err = "ValidationError:state"
    /\ Len(PassengerCarWaybillRecord) + Len(FireTruckWaybillRecord) > 0

----------------------------------------------------------------------------
SameWaybillHeader(a, b) ==
    /\ a.id = b.id /\ a.car = b.car /\ a.date = b.date
    /\ a.norm_season = b.norm_season /\ a.deleted_at = b.deleted_at

(* C10: frame of a successful commit.  It appends one trip record and one  *)
(* snapshot, rewrites nothing but the aggregates of the record's waybill,  *)
(* and leaves every earlier record and snapshot, every norm, every other   *)
(* waybill and all tables of the other vehicle kind unchanged.             *)

C10_CommitFrame ==
    [][ /\ (PCCommitted' =>
              /\ Len(PassengerCarWaybillRecord') = Len(PassengerCarWaybillRecord) + 1
              /\ IsPrefix(PassengerCarWaybillRecord, PassengerCarWaybillRecord')
              /\ Len(OdometerFuelPassengerCar') = Len(OdometerFuelPassengerCar) + 1
              /\ IsPrefix(OdometerFuelPassengerCar, OdometerFuelPassengerCar')
              /\ NormsPassengerCars' = NormsPassengerCars
              /\ DOMAIN PassengerCarWaybill' = DOMAIN PassengerCarWaybill
              /\ \A w \in DOMAIN PassengerCarWaybill :
                    IF w = lastOp'.wb
                    THEN SameWaybillHeader(PassengerCarWaybill'[w],
                                           PassengerCarWaybill[w])
                    ELSE PassengerCarWaybill'[w] = PassengerCarWaybill[w]
              /\ UNCHANGED ftVars)
        /\ (FTCommitted' =>
              /\ Len(FireTruckWaybillRecord') = Len(FireTruckWaybillRecord) + 1
              /\ IsPrefix(FireTruckWaybillRecord, FireTruckWaybillRecord')
              /\ Len(OdometerFuelFireTruck') = Len(OdometerFuelFireTruck) + 1
              /\ IsPrefix(OdometerFuelFireTruck, OdometerFuelFireTruck')
              /\ NormsFireTruck' = NormsFireTruck
              /\ DOMAIN FireTruckWaybill' = DOMAIN FireTruckWaybill
              /\ \A w \in DOMAIN FireTruckWaybill :
                    IF w = lastOp'.wb
                    THEN SameWaybillHeader(FireTruckWaybill'[w], FireTruckWaybill[w])
                    ELSE FireTruckWaybill'[w] = FireTruckWaybill[w]
              /\ UNCHANGED pcVars)
      ]_vars

(* a commit made while the car had an earlier record on another waybill *)
(* with aggregates of its own                                           *)
C10_Witness ==
    /\ PCCommitted
    /\ Len(PassengerCarWaybillRecord) > 1
    /\ \E r \in RowsOf(PassengerCarWaybillRecord) :
          /\ r.passenger_car_waybill # lastOp.wb
          /\ PCWaybillOf(r).total_spent + PCWaybillOf(r).total_received > 0

----------------------------------------------------------------------------
(* Concurrent saves of new passenger-car trip records.                     *)
(*                                                                         *)
(* save() opens transaction.atomic() and takes no lock (no                 *)
(* select_for_update): _fill_start_values reads the latest committed       *)
(* snapshot, and the rest of the block runs later, at its commit.  Each    *)
(* worker is one request.  The waybills used are one per car, same date.   *)

ConcWaybills == {1, 4}

InitConc ==
    /\ NormsPassengerCars = <<
          [id |-> 1, car |-> 1, season |-> "summer", city_norm |-> 100,
           area_norm |-> 80, date |-> 1, deleted_at |-> NULL],
          [id |-> 2, car |-> 2, season |-> "winter", city_norm |-> 120,
           area_norm |-> 90, date |-> 2, deleted_at |-> NULL] >>
    /\ PassengerCarWaybill = << NewWaybill(1, 1, 2, "summer"),
                                NewWaybill(2, 1, 1, "summer"),
                                NewWaybill(3, 2, 1, "winter"),
                                NewWaybill(4, 2, 2, "winter") >>
    /\ PassengerCarWaybillRecord = << >>
    /\ OdometerFuelPassengerCar = <<
          [id |-> 1, car |-> 1, odometer |-> 999980, fuel |-> 50000,
           date |-> 1, waybill |-> 0, deleted_at |-> NULL],
          [id |-> 2, car |-> 2, odometer |-> 999980, fuel |-> 50000,
           date |-> 1, waybill |-> 0, deleted_at |-> NULL] >>
    /\ NormsFireTruck = << >>
    /\ FireTruckWaybill = << >>
    /\ FireTruckWaybillRecord = << >>
    /\ OdometerFuelFireTruck = << >>
    /\ lastOp = LastOp("init", TRUE, "", 0)
    /\ txn = [p \in Workers |-> << >>]
    /\ InitSignature
    /\ InitAccounts

OpenTxns == {p \in Workers : txn[p] # << >>}

(* save(), first statement: self._fill_start_values() *)
Conc_fill_start_values ==
    \E p \in Workers, w \in ConcWaybills, inp \in PassengerCarRecordInputs :
        /\ txn[p] = << >>
        /\ Len(PassengerCarWaybillRecord) + Cardinality(OpenTxns) < MaxRecords
        /\ LET last_state ==
                   OdometerFuelPassengerCar_last_state(PassengerCarWaybill[w].car)
           IN  IF last_state = {}
               THEN /\ txn' = txn
                    /\ lastOp' = LastOp("pc_record_create", FALSE,
                                        "ValidationError:last_state", w)
               ELSE /\ txn' = [txn EXCEPT ![p] =
                          << PassengerCarWaybillRecord_fill_start_values(
                                NewPassengerCarRecord(0, w, inp),
                                first_by_date_id(last_state)) >>]
                    /\ lastOp' = LastOp("pc_record_begin", TRUE, "", w)
        /\ UNCHANGED << signVars, roleVars, authVars, pcVars, ftVars >>

(* save(), the rest of the atomic block, and its commit *)
Conc_commit ==
    \E p \in OpenTxns :
        /\ LET self == [txn[p][1] EXCEPT !.id = Len(PassengerCarWaybillRecord) + 1]
               res == transaction_atomic(PassengerCarTables,
                         PassengerCarWaybillRecord_save_steps(self, "all"))
           IN  /\ PassengerCarWaybillRecord' = res.records
               /\ OdometerFuelPassengerCar' = res.states
               /\ PassengerCarWaybill' = res.waybills
               /\ lastOp' = LastOp("pc_record_create", res.ok, res.err,
                                   self.passenger_car_waybill)
        /\ txn' = [txn EXCEPT ![p] = << >>]
        /\ UNCHANGED << signVars, roleVars, authVars, NormsPassengerCars, ftVars >>

NextConc ==
    \/ Conc_fill_start_values
    \/ Conc_commit

SpecConc == InitConc /\ [][NextConc]_vars

----------------------------------------------------------------------------
(* C9: concurrent commits for one vehicle are serialized.  Of two records  *)
(* of the same car with consecutive ids, the later one starts where the    *)
(* earlier one ended: no two records take the same snapshot as their       *)
(* predecessor.                                                            *)

C9_CommitsSerialized ==
    \A r1, r2 \in RowsOf(PassengerCarWaybillRecord) :
        (/\ PCWaybillOf(r1).car = PCWaybillOf(r2).car
         /\ r1.id < r2.id
         /\ ~\E q \in PCRecordsOf(PCWaybillOf(r1).car) : r1.id < q.id /\ q.id < r2.id)
        => /\ r2.odometer_before = r1.odometer_after
           /\ r2.fuel_before_departure = r1.fuel_on_return

----------------------------------------------------------------------------
(* Waybill aggregates *)

(* the last request was a record save that ran to recalc_totals *)
PCRecalculated ==
    /\ lastOp.ok
    /\ lastOp.op \in {"pc_record_create", "pc_record_update", "pc_record_destroy"}

FTRecalculated ==
    /\ lastOp.ok
    /\ lastOp.op \in {"ft_record_create", "ft_record_update", "ft_record_destroy"}

Waybills == RowsOf(PassengerCarWaybill) \cup RowsOf(FireTruckWaybill)

(* C11: savings and overrun.  Every waybill, recalculated or not, has with *)
(* diff = required_by_norm - total_spent: savings = diff and overrun = 0   *)
(* when diff >= 0, savings = 0 and overrun = -diff otherwise; so both are  *)
(* non-negative and at least one of them is zero.                          *)

C11_SavingsOverrun ==
    \A w \in Waybills :
        LET diff == w.required_by_norm - w.total_spent
        IN  /\ (diff >= 0 => (w.savings = diff /\ w.overrun = 0))
            /\ (diff < 0 => (w.savings = 0 /\ w.overrun = -diff))
            /\ w.savings >= 0 /\ w.overrun >= 0
            /\ (w.savings = 0 \/ w.overrun = 0)

(* a commit that spent more than the norm allows: the recalculated waybill *)
(* has an overrun                                                          *)
C11_Witness ==
    /\ PCRecalculated
    /\ PassengerCarWaybill[lastOp.wb].required_by_norm
          < PassengerCarWaybill[lastOp.wb].total_spent
    /\ PassengerCarWaybill[lastOp.wb].overrun > 0

(* sum of f over a finite set of rows *)
RECURSIVE SumOver(_, _)
SumOver(rows, f) ==
    IF rows = {} THEN 0
    ELSE LET r == CHOOSE x \in rows : TRUE
         IN  f[r] + SumOver(rows \ {r}, f)

(* the alive trip records of a waybill *)
PCAliveRecordsOfWaybill(w) ==
    {r \in RowsOf(PassengerCarWaybillRecord) :
        r.deleted_at = NULL /\ r.passenger_car_waybill = w}

FTAliveRecordsOfWaybill(w) ==
    {r \in RowsOf(FireTruckWaybillRecord) :
        r.deleted_at = NULL /\ r.fire_truck_waybill = w}

TotalsAreSums(wb, rows) ==
    /\ wb.total_spent = SumOver(rows, [r \in rows |-> r.fuel_used])
    /\ wb.total_received = SumOver(rows, [r \in rows |-> r.fuel_refueled])
    /\ wb.required_by_norm = SumOver(rows, [r \in rows |-> r.fuel_used_normal])
    /\ (rows = {} =>
          wb.total_spent = 0 /\ wb.total_received = 0 /\ wb.required_by_norm = 0)

(* C12: after a recalc of a waybill its total_spent, total_received and    *)
(* required_by_norm are the sums of fuel_used, fuel_refueled and           *)
(* fuel_used_normal over the waybill's alive trip records, 0 when it has   *)
(* none.                                                                   *)

C12_TotalsAreSums ==
    /\ (PCRecalculated =>
          TotalsAreSums(PassengerCarWaybill[lastOp.wb],
                        PCAliveRecordsOfWaybill(lastOp.wb)))
    /\ (FTRecalculated =>
          TotalsAreSums(FireTruckWaybill[lastOp.wb],
                        FTAliveRecordsOfWaybill(lastOp.wb)))

(* a commit on one waybill while another waybill has a record with fuel *)
(* spent: the sums are over the waybill's own records only              *)
C12_Witness ==
    /\ PCRecalculated
    /\ PCAliveRecordsOfWaybill(lastOp.wb) # {}
    /\ \E r \in RowsOf(PassengerCarWaybillRecord) :
          r.passenger_car_waybill # lastOp.wb /\ r.fuel_used > 0

(* C13: two records on one waybill.  For a car with one seed snapshot of   *)
(* fuel F, inserted before any commit, whose only trip records are two     *)
(* records committed one after the other on one waybill, the first without *)
(* refuelling and the second with 20 l refuelled, the waybill has          *)
(* total_received = 20 l and upon_issuance = F.                            *)

C13_TwoRecordsOnOneWaybill ==
    \A car \in PassengerCars :
        LET seeds == {s \in RowsOf(OdometerFuelPassengerCar) :
                         s.car = car /\ s.waybill = 0}
        IN  \A s \in seeds, r1, r2 \in PCRecordsOf(car) :
              (/\ seeds = {s}
               /\ \A q \in RowsOf(OdometerFuelPassengerCar) :
                     q.car = car => s.id <= q.id
               /\ PCRecordsOf(car) = {r1, r2}
               /\ r1.id < r2.id
               /\ r1.passenger_car_waybill = r2.passenger_car_waybill
               /\ r1.fuel_refueled = 0
               /\ r2.fuel_refueled = 20000)
              => /\ PCWaybillOf(r1).total_received = 20000
                 /\ PCWaybillOf(r1).upon_issuance = s.fuel

(* s is the latest alive snapshot of car dated at or before date *)
IsLatestUpTo(s, states, car, date) ==
    /\ s \in RowsOf(states) /\ s.deleted_at = NULL /\ s.car = car
    /\ s.date <= date
    /\ \A q \in RowsOf(states) :
          (q.deleted_at = NULL /\ q.car = car /\ q.date <= date) =>
              (q.date < s.date \/ (q.date = s.date /\ q.id <= s.id))

(* v is the fuel of that snapshot, or zero when there is none *)
IsFuelUpTo(v, states, car, date) ==
    IF \E s \in RowsOf(states) : IsLatestUpTo(s, states, car, date)
    THEN \E s \in RowsOf(states) :
            IsLatestUpTo(s, states, car, date) /\ v = s.fuel
    ELSE v = 0

(* C14: upon_issuance.  After a recalc the waybill's upon_issuance is the  *)
(* fuel of the car's latest alive snapshot dated at or before the          *)
(* waybill's date (greatest date, then greatest id); and for any waybill   *)
(* recalc_totals yields that value, zero when the car has no such snapshot.*)

C14_UponIssuance ==
    /\ (PCRecalculated =>
          IsFuelUpTo(PassengerCarWaybill[lastOp.wb].upon_issuance,
                     OdometerFuelPassengerCar,
                     PassengerCarWaybill[lastOp.wb].car,
                     PassengerCarWaybill[lastOp.wb].date))
    /\ (FTRecalculated =>
          IsFuelUpTo(FireTruckWaybill[lastOp.wb].upon_issuance,
                     OdometerFuelFireTruck,
                     FireTruckWaybill[lastOp.wb].car,
                     FireTruckWaybill[lastOp.wb].date))
    /\ \A w \in RowsOf(PassengerCarWaybill) :
          IsFuelUpTo(PassengerCarWaybill_recalc_totals(
                         w, OdometerFuelPassengerCar,
                         PassengerCarWaybillRecord).upon_issuance,
                     OdometerFuelPassengerCar, w.car, w.date)
    /\ \A w \in RowsOf(FireTruckWaybill) :
          IsFuelUpTo(FireTruckWaybill_recalc_totals(
                         w, OdometerFuelFireTruck,
                         FireTruckWaybillRecord).upon_issuance,
                     OdometerFuelFireTruck, w.car, w.date)

(* a commit on a waybill dated before a snapshot of its car, while another *)
(* waybill's car has no snapshot at or before that waybill's date          *)
C14_Witness ==
    /\ PCRecalculated
    /\ \E s \in objects(OdometerFuelPassengerCar) :
          /\ s.car = PassengerCarWaybill[lastOp.wb].car
          /\ s.date > PassengerCarWaybill[lastOp.wb].date
          /\ s.fuel # PassengerCarWaybill[lastOp.wb].upon_issuance
    /\ \E w \in RowsOf(PassengerCarWaybill) :
          ~\E s \in RowsOf(OdometerFuelPassengerCar) :
              IsLatestUpTo(s, OdometerFuelPassengerCar, w.car, w.date)

AvailabilityIsLastReturn(wb, rows) ==
    IF rows = {}
    THEN wb.availability_upon_delivery = wb.upon_issuance
    ELSE \E r \in rows :
            /\ \A q \in rows : q.id <= r.id
            /\ wb.availability_upon_delivery = r.fuel_on_return

(* C15: availability_upon_delivery.  After a recalc it is the              *)
(* fuel_on_return of the waybill's alive trip record with the greatest id, *)
(* or upon_issuance when the waybill has no alive record.                  *)

C15_AvailabilityUponDelivery ==
    /\ (PCRecalculated =>
          AvailabilityIsLastReturn(PassengerCarWaybill[lastOp.wb],
                                   PCAliveRecordsOfWaybill(lastOp.wb)))
    /\ (FTRecalculated =>
          AvailabilityIsLastReturn(FireTruckWaybill[lastOp.wb],
                                   FTAliveRecordsOfWaybill(lastOp.wb)))

(* a recalc over two alive records of the waybill that returned with *)
(* different amounts of fuel                                         *)
C15_Witness ==
    /\ PCRecalculated
    /\ \E r, q \in PCAliveRecordsOfWaybill(lastOp.wb) :
          r.id < q.id /\ r.fuel_on_return # q.fuel_on_return

(* C16: recalc_totals is idempotent.  With the trip records and the ledger *)
(* as they are, a second call on a waybill that has just been recalculated *)
(* leaves its seven aggregates as the first call set them: both for the    *)
(* waybill a record save has just recalculated and for any waybill on      *)
(* which recalc_totals is called twice.                                    *)

C16_RecalcIdempotent ==
    /\ (PCRecalculated =>
          PassengerCarWaybill_recalc_totals(
              PassengerCarWaybill[lastOp.wb], OdometerFuelPassengerCar,
              PassengerCarWaybillRecord) = PassengerCarWaybill[lastOp.wb])
    /\ (FTRecalculated =>
          FireTruckWaybill_recalc_totals(
              FireTruckWaybill[lastOp.wb], OdometerFuelFireTruck,
              FireTruckWaybillRecord) = FireTruckWaybill[lastOp.wb])
    /\ \A w \in RowsOf(PassengerCarWaybill) :
          LET once == PassengerCarWaybill_recalc_totals(
                          w, OdometerFuelPassengerCar, PassengerCarWaybillRecord)
          IN  PassengerCarWaybill_recalc_totals(
                  once, OdometerFuelPassengerCar, PassengerCarWaybillRecord) = once
    /\ \A w \in RowsOf(FireTruckWaybill) :
          LET once == FireTruckWaybill_recalc_totals(
                          w, OdometerFuelFireTruck, FireTruckWaybillRecord)
          IN  FireTruckWaybill_recalc_totals(
                  once, OdometerFuelFireTruck, FireTruckWaybillRecord) = once

(* a waybill recalculated by a commit, with fuel received, spent and an *)
(* overrun, while a snapshot inserted later has made another waybill's  *)
(* stored upon_issuance stale                                           *)
C16_Witness ==
    /\ PCRecalculated
    /\ PassengerCarWaybill[lastOp.wb].total_received > 0
    /\ PassengerCarWaybill[lastOp.wb].total_spent > 0
    /\ PassengerCarWaybill[lastOp.wb].overrun > 0
    /\ \E w \in RowsOf(PassengerCarWaybill) :
          PassengerCarWaybill_recalc_totals(
              w, OdometerFuelPassengerCar, PassengerCarWaybillRecord) # w

----------------------------------------------------------------------------
(* Norm resolution *)

(* n is, among the alive norms of car and season approved at or before *)
(* date, the one with the greatest date and then the greatest id       *)
IsResolvedNorm(n, norms, car, season, date) ==
    /\ n \in RowsOf(norms) /\ n.deleted_at = NULL
    /\ n.car = car /\ n.season = season /\ n.date <= date
    /\ \A m \in RowsOf(norms) :
          (/\ m.deleted_at = NULL /\ m.car = car /\ m.season = season
           /\ m.date <= date) =>
              (m.date < n.date \/ (m.date = n.date /\ m.id <= n.id))

Resolvable(norms, car, season, date) ==
    \E n \in RowsOf(norms) : IsResolvedNorm(n, norms, car, season, date)

(* C17: norm resolution.  For a vehicle, a season and an as-of date it     *)
(* yields, among the alive norms of that vehicle and season approved at or *)
(* before the date, the one with the greatest date and, among those of     *)
(* that date, the greatest id; it finds nothing when there is none; the    *)
(* for-date request answers with that norm, or 404, and writes nothing.    *)

C17_NormResolution ==
    [][ /\ (lastOp'.op = "pc_norm_for_date" =>
              /\ UNCHANGED << pcVars, ftVars, txn >>
              /\ IF Resolvable(NormsPassengerCars, lastOp'.car,
                               lastOp'.season, lastOp'.date)
                 THEN /\ lastOp'.ok
                      /\ lastOp'.norm \in DOMAIN NormsPassengerCars
                      /\ IsResolvedNorm(NormsPassengerCars[lastOp'.norm],
                                        NormsPassengerCars, lastOp'.car,
                                        lastOp'.season, lastOp'.date)
                 ELSE ~lastOp'.ok /\ lastOp'.norm = 0)
        /\ (lastOp'.op = "ft_norm_for_date" =>
              /\ UNCHANGED << pcVars, ftVars, txn >>
              /\ IF Resolvable(NormsFireTruck, lastOp'.car,
                               lastOp'.season, lastOp'.date)
                 THEN /\ lastOp'.ok
                      /\ lastOp'.norm \in DOMAIN NormsFireTruck
                      /\ IsResolvedNorm(NormsFireTruck[lastOp'.norm],
                                        NormsFireTruck, lastOp'.car,
                                        lastOp'.season, lastOp'.date)
                 ELSE ~lastOp'.ok /\ lastOp'.norm = 0)
      ]_vars

(* a for-date request answered with the newer of two alive norms of the *)
(* same car, season and date                                            *)
C17_Witness ==
    /\ lastOp.op = "pc_norm_for_date"
    /\ lastOp.ok
    /\ \E m \in objects(NormsPassengerCars) :
          /\ m.car = lastOp.car /\ m.season = lastOp.season
          /\ m.date = NormsPassengerCars[lastOp.norm].date
          /\ m.id < lastOp.norm

(* C18: norm resolution is monotonic in the as-of date.  With the norms as *)
(* they are in a state, for every vehicle, season and dates d1 < d2: if    *)
(* the resolution for d1 finds a norm, so does the resolution for d2, and  *)
(* the norm found for d1 is approved no later than the one found for d2.   *)

C18_NormResolutionMonotonic ==
    \A season \in Seasons, d1 \in Dates, d2 \in Dates :
        d1 < d2 =>
           /\ \A car \in PassengerCars :
                 LET n1 == NormsPassengerCars_for_date(car, season, d1)
                     n2 == NormsPassengerCars_for_date(car, season, d2)
                 IN  n1 # {} =>
                        /\ n2 # {}
                        /\ first_by_date_id(n1).date <= first_by_date_id(n2).date
           /\ \A car \in FireTrucks :
                 LET n1 == NormsFireTruck_for_date(car, season, d1)
                     n2 == NormsFireTruck_for_date(car, season, d2)
                 IN  n1 # {} =>
                        /\ n2 # {}
                        /\ first_by_date_id(n1).date <= first_by_date_id(n2).date

(* a for-date request for a later date answered with a later norm than *)
(* the one an earlier date of the same car and season resolves to      *)
C18_Witness ==
    /\ lastOp.op = "pc_norm_for_date"
    /\ lastOp.ok
    /\ \E d1 \in Dates :
          /\ d1 < lastOp.date
          /\ NormsPassengerCars_for_date(lastOp.car, lastOp.season, d1) # {}
          /\ first_by_date_id(NormsPassengerCars_for_date(
                 lastOp.car, lastOp.season, d1)).date
                < NormsPassengerCars[lastOp.norm].date

(* C19: one norm vintage per waybill.  Whatever the interleaving of commits *)
(* and norm insertions, all trip records of one waybill have their by-norm  *)
(* consumption computed from one and the same norm row.                     *)

C19_OneNormPerWaybill ==
    /\ \A w \in DOMAIN PassengerCarWaybill :
          \/ PCAliveRecordsOfWaybill(w) = {}
          \/ \E n \in RowsOf(NormsPassengerCars) :
                \A r \in PCAliveRecordsOfWaybill(w) :
                   /\ r.fuel_used_city = r.distance_city_km * n.city_norm
                   /\ r.fuel_used_area = r.distance_area_km * n.area_norm
    /\ \A w \in DOMAIN FireTruckWaybill :
          \/ FTAliveRecordsOfWaybill(w) = {}
          \/ \E n \in RowsOf(NormsFireTruck) :
                \A r \in FTAliveRecordsOfWaybill(w) :
                   /\ r.fuel_used_by_distance = r.distance_km * n.km_norm
                   /\ r.fuel_used_with_pump = r.time_with_pump * n.with_pump_norm
                   /\ r.fuel_used_without_pump
                         = r.time_without_pump * n.without_pump_norm

(* C20: passenger-car computation.  Every trip record has                  *)
(* distance_total_km = distance_city_km + distance_area_km and             *)
(* odometer_after = odometer_before + distance_total_km; the record a      *)
(* commit has just persisted has fuel_used_normal = distance_city_km x     *)
(* city_norm + distance_area_km x area_norm of the norm resolved for its   *)
(* waybill's car, season and date.                                         *)

C20_PassengerCarComputation ==
    /\ \A r \in RowsOf(PassengerCarWaybillRecord) :
          /\ r.distance_total_km = r.distance_city_km + r.distance_area_km
          /\ r.odometer_after = r.odometer_before + r.distance_total_km
    /\ (PCCommitted =>
          LET r == NewRow(PassengerCarWaybillRecord)
              wb == PassengerCarWaybill[lastOp.wb]
          IN  \E n \in RowsOf(NormsPassengerCars) :
                 /\ IsResolvedNorm(n, NormsPassengerCars, wb.car,
                                   wb.norm_season, wb.date)
                 /\ r.fuel_used_normal = r.distance_city_km * n.city_norm
                                         + r.distance_area_km * n.area_norm)

(* a commit with city and area distance, resolved to the later of two *)
(* alive norms of the car and season                                  *)
C20_Witness ==
    /\ PCCommitted
    /\ NewRow(PassengerCarWaybillRecord).distance_city_km > 0
    /\ NewRow(PassengerCarWaybillRecord).distance_area_km > 0
    /\ \E n, m \in objects(NormsPassengerCars) :
          /\ n.car = PassengerCarWaybill[lastOp.wb].car /\ m.car = n.car
          /\ n.season = PassengerCarWaybill[lastOp.wb].norm_season
          /\ m.season = n.season
          /\ m.date < n.date /\ n.date <= PassengerCarWaybill[lastOp.wb].date
          /\ NewRow(PassengerCarWaybillRecord).fuel_used_normal
                = NewRow(PassengerCarWaybillRecord).distance_city_km * n.city_norm
                  + NewRow(PassengerCarWaybillRecord).distance_area_km * n.area_norm

(* C21: fire-truck computation.  Every trip record has                     *)
(* distance_km = odometer_after - odometer_before; the record a commit has *)
(* just persisted keeps the odometer_after of the request and has          *)
(* fuel_used_normal = distance_km x km_norm + time_with_pump x             *)
(* with_pump_norm + time_without_pump x without_pump_norm of the norm      *)
(* resolved for its waybill's truck, season and date.                      *)

C21_FireTruckComputation ==
    /\ \A r \in RowsOf(FireTruckWaybillRecord) :
          r.distance_km = r.odometer_after - r.odometer_before
    /\ (FTCommitted =>
          LET r == NewRow(FireTruckWaybillRecord)
              wb == FireTruckWaybill[lastOp.wb]
          IN  /\ \E inp \in FireTruckRecordInputs :
                    /\ r.odometer_after = inp.odometer_after
                    /\ r.time_with_pump = inp.time_with_pump
                    /\ r.time_without_pump = inp.time_without_pump
              /\ \E n \in RowsOf(NormsFireTruck) :
                    /\ IsResolvedNorm(n, NormsFireTruck, wb.car,
                                      wb.norm_season, wb.date)
                    /\ r.fuel_used_normal =
                          r.distance_km * n.km_norm
                          + r.time_with_pump * n.with_pump_norm
                          + r.time_without_pump * n.without_pump_norm)

(* a commit with distance and both pump times, resolved to the later of *)
(* two alive norms of the truck and season                              *)
C21_Witness ==
    /\ FTCommitted
    /\ NewRow(FireTruckWaybillRecord).distance_km > 0
    /\ NewRow(FireTruckWaybillRecord).time_with_pump > 0
    /\ NewRow(FireTruckWaybillRecord).time_without_pump > 0
    /\ \E n, m \in objects(NormsFireTruck) :
          /\ n.car = FireTruckWaybill[lastOp.wb].car /\ m.car = n.car
          /\ n.season = FireTruckWaybill[lastOp.wb].norm_season
          /\ m.season = n.season
          /\ m.date < n.date /\ n.date <= FireTruckWaybill[lastOp.wb].date
          /\ NewRow(FireTruckWaybillRecord).fuel_used_by_distance
                = NewRow(FireTruckWaybillRecord).distance_km * n.km_norm

----------------------------------------------------------------------------
(* The committed record and its snapshot *)

(* C22: fuel on return.  Every trip record of either vehicle kind has      *)
(* fuel_on_return = fuel_before_departure + fuel_refueled - fuel_used, and *)
(* the fuel_used and fuel_refueled of a record just committed are the      *)
(* figures of the request.                                                 *)

C22_FuelOnReturn ==
    /\ \A r \in RowsOf(PassengerCarWaybillRecord) \cup RowsOf(FireTruckWaybillRecord) :
          r.fuel_on_return = r.fuel_before_departure + r.fuel_refueled - r.fuel_used
    /\ (PCCommitted =>
          \E inp \in PassengerCarRecordInputs :
             /\ NewRow(PassengerCarWaybillRecord).fuel_used = inp.fuel_used
             /\ NewRow(PassengerCarWaybillRecord).fuel_refueled = inp.fuel_refueled
             /\ NewRow(PassengerCarWaybillRecord).distance_city_km = inp.distance_city_km
             /\ NewRow(PassengerCarWaybillRecord).distance_area_km = inp.distance_area_km)
    /\ (FTCommitted =>
          \E inp \in FireTruckRecordInputs :
             /\ NewRow(FireTruckWaybillRecord).fuel_used = inp.fuel_used
             /\ NewRow(FireTruckWaybillRecord).fuel_refueled = inp.fuel_refueled
             /\ NewRow(FireTruckWaybillRecord).odometer_after = inp.odometer_after)

(* a commit whose reported consumption differs from the by-norm figure, *)
(* with a refuelling record already committed for the car               *)
C22_Witness ==
    /\ PCCommitted
    /\ NewRow(PassengerCarWaybillRecord).fuel_used
          # NewRow(PassengerCarWaybillRecord).fuel_used_normal
    /\ NewRow(PassengerCarWaybillRecord).fuel_used > 0
    /\ \E r \in RowsOf(PassengerCarWaybillRecord) :
          r.id < Len(PassengerCarWaybillRecord) /\ r.fuel_refueled > 0

(* C23: the snapshot of a commit.  A successful commit appends one         *)
(* snapshot, which carries the waybill's vehicle, the record's             *)
(* odometer_after as odometer, the record's fuel_on_return as fuel, the    *)
(* waybill's date and the reference to the record's waybill.               *)

C23_SnapshotOfCommit ==
    [][ /\ (PCCommitted' =>
              /\ Len(OdometerFuelPassengerCar') = Len(OdometerFuelPassengerCar) + 1
              /\ LET s == OdometerFuelPassengerCar'[Len(OdometerFuelPassengerCar')]
                     r == PassengerCarWaybillRecord'[Len(PassengerCarWaybillRecord')]
                     wb == PassengerCarWaybill[lastOp'.wb]
                 IN  /\ r.passenger_car_waybill = lastOp'.wb
                     /\ s.car = wb.car
                     /\ s.odometer = r.odometer_after
                     /\ s.fuel = r.fuel_on_return
                     /\ s.date = wb.date
                     /\ s.waybill = wb.id
                     /\ s.deleted_at = NULL)
        /\ (FTCommitted' =>
              /\ Len(OdometerFuelFireTruck') = Len(OdometerFuelFireTruck) + 1
              /\ LET s == OdometerFuelFireTruck'[Len(OdometerFuelFireTruck')]
                     r == FireTruckWaybillRecord'[Len(FireTruckWaybillRecord')]
                     wb == FireTruckWaybill[lastOp'.wb]
                 IN  /\ r.fire_truck_waybill = lastOp'.wb
                     /\ s.car = wb.car
                     /\ s.odometer = r.odometer_after
                     /\ s.fuel = r.fuel_on_return
                     /\ s.date = wb.date
                     /\ s.waybill = wb.id
                     /\ s.deleted_at = NULL)
      ]_vars

(* a commit that moved the odometer and the fuel, on a waybill dated *)
(* otherwise than the car's previous snapshot                        *)
C23_Witness ==
    /\ PCCommitted
    /\ NewRow(PassengerCarWaybillRecord).odometer_after
          # NewRow(PassengerCarWaybillRecord).odometer_before
    /\ NewRow(PassengerCarWaybillRecord).fuel_on_return
          # NewRow(PassengerCarWaybillRecord).fuel_before_departure
    /\ NewRow(OdometerFuelPassengerCar).odometer
          = NewRow(PassengerCarWaybillRecord).odometer_after
    /\ \E s \in RowsOf(OdometerFuelPassengerCar) :
          /\ s.car = PassengerCarWaybill[lastOp.wb].car
          /\ s.id < Len(OdometerFuelPassengerCar)
          /\ s.date # PassengerCarWaybill[lastOp.wb].date

(* the commit of the worked example: the first record of its waybill, on a *)
(* car at 1000 km with 50 l, 10 km in city and 5 km outside, 1.6 l used,   *)
(* nothing refuelled, norms 0.10 and 0.08 l/km                             *)
ExampleCommit ==
    /\ PCCommitted
    /\ PCAliveRecordsOfWaybill(lastOp.wb) = {NewRow(PassengerCarWaybillRecord)}
    /\ NewRow(PassengerCarWaybillRecord).odometer_before = 1000
    /\ NewRow(PassengerCarWaybillRecord).fuel_before_departure = 50000
    /\ NewRow(PassengerCarWaybillRecord).distance_city_km = 10
    /\ NewRow(PassengerCarWaybillRecord).distance_area_km = 5
    /\ NewRow(PassengerCarWaybillRecord).fuel_refueled = 0
    /\ NewRow(PassengerCarWaybillRecord).fuel_used = 1600
    /\ \E n \in RowsOf(NormsPassengerCars) :
          /\ IsResolvedNorm(n, NormsPassengerCars,
                            PassengerCarWaybill[lastOp.wb].car,
                            PassengerCarWaybill[lastOp.wb].norm_season,
                            PassengerCarWaybill[lastOp.wb].date)
          /\ n.city_norm = 100 /\ n.area_norm = 80

(* C24: worked example.  That commit yields fuel_used_normal = 1.4 l,      *)
(* fuel_on_return = 48.4 l, a waybill overrun of 0.2 l with savings 0, and *)
(* a current odometer of 1015 km for the car.                              *)

C24_WorkedExample ==
    ExampleCommit =>
       /\ NewRow(PassengerCarWaybillRecord).fuel_used_normal = 1400
       /\ NewRow(PassengerCarWaybillRecord).fuel_on_return = 48400
       /\ PassengerCarWaybill[lastOp.wb].overrun = 200
       /\ PassengerCarWaybill[lastOp.wb].savings = 0
       /\ CurrentOdometer(OdometerFuelPassengerCar,
                          PassengerCarWaybill[lastOp.wb].car) = 1015

(* the example committed on the waybill dated after the seed *)
C24_Witness ==
    /\ ExampleCommit
    /\ PassengerCarWaybill[lastOp.wb].date = 2
    /\ Len(PassengerCarWaybillRecord) = 1


----------------------------------------------------------------------------
(* Signature workflow: vocabulary of the properties *)

(* a substitution row: substitute stands in for main *)
Substitutes(main, substitute) ==
    [main_role |-> main, substitute_role |-> substitute] \in RoleSubstitution

(* canSign of the design: the slot's own role, or a registered substitute *)
CanSign(user, slot) ==
    \/ User[user] = slot.role
    \/ Substitutes(slot.role, User[user])

IsSign(op) == op.op = "sign"

SlotOf(op) == RequiredRole[op.req]

(* the stored signatures of a slot of a document *)
SignaturesOf(sigs, waybill, req) ==
    {s \in RowsOf(sigs) : s.waybill = waybill /\ s.required_role = req}

(* C25: a sign call is refused for want of the right to sign exactly when  *)
(* the user's role is neither the slot's role nor registered as substitute *)
(* for the slot's role; a row in the opposite direction, or a chain of two *)
(* rows from the slot's role to the user's role, gives no right to sign.   *)
C25_CanSign ==
    [][IsSign(lastOp') =>
        LET user == lastOp'.user
            slot == SlotOf(lastOp')
            refused == lastOp'.err = "PermissionDenied:slot"
        IN  /\ refused <=> ~CanSign(user, slot)
            /\ (/\ User[user] # slot.role
                /\ ~Substitutes(slot.role, User[user])
                /\ Substitutes(User[user], slot.role)) => refused
            /\ (/\ User[user] # slot.role
                /\ ~Substitutes(slot.role, User[user])
                /\ \E mid \in Roles : /\ Substitutes(slot.role, mid)
                                      /\ Substitutes(mid, User[user]))
               => refused]_vars

(* a substitute has signed slot 1, and the substitute of that substitute   *)
(* has just been refused on the same slot                                  *)
C25_Witness ==
    /\ IsSign(lastOp)
    /\ lastOp.err = "PermissionDenied:slot"
    /\ lastOp.req = 1
    /\ User[lastOp.user] = 3
    /\ Substitutes(1, 2)
    /\ Substitutes(2, 3)
    /\ \E s \in SignaturesOf(Signature, lastOp.wb, 1) : User[s.user] = 2


(* C26: a sign call by a user who may not sign the slot fails with         *)
(* PermissionDenied and writes nothing: the stored signatures, of that     *)
(* slot and of every other, are the ones of before the call.               *)
C26_UnauthorizedSignWritesNothing ==
    [][(IsSign(lastOp') /\ ~CanSign(lastOp'.user, SlotOf(lastOp'))) =>
        /\ ~lastOp'.ok
        /\ lastOp'.err = "PermissionDenied:slot"
        /\ lastOp'.signature = 0
        /\ Signature' = Signature]_vars

(* a user without the right to sign has just been refused on a slot that   *)
(* carries a signature, while the other slot carries none                  *)
C26_Witness ==
    /\ IsSign(lastOp)
    /\ ~CanSign(lastOp.user, SlotOf(lastOp))
    /\ ~lastOp.ok
    /\ SignaturesOf(Signature, lastOp.wb, lastOp.req) # {}
    /\ \E r \in DOMAIN RequiredRole :
          SignaturesOf(Signature, lastOp.wb, r) = {}


(* C27: when a slot of a document carries the signature of user A, a sign  *)
(* call on that slot by another user B who may sign it fails with          *)
(* PermissionDenied, and the slot's stored signature is still A's.         *)
C27_SignedByAnotherUser ==
    [][IsSign(lastOp') =>
        \A a \in SignaturesOf(Signature, lastOp'.wb, lastOp'.req) :
            (a.user # lastOp'.user /\ CanSign(lastOp'.user, SlotOf(lastOp'))) =>
                /\ ~lastOp'.ok
                /\ lastOp'.err = "PermissionDenied:signed"
                /\ Signature' = Signature
                /\ SignaturesOf(Signature', lastOp'.wb, lastOp'.req) = {a}]_vars

(* B, who may sign the slot, has just been refused on the slot A signed *)
C27_Witness ==
    /\ IsSign(lastOp)
    /\ lastOp.err = "PermissionDenied:signed"
    /\ CanSign(lastOp.user, SlotOf(lastOp))
    /\ \E a \in SignaturesOf(Signature, lastOp.wb, lastOp.req) :
          a.user # lastOp.user

(* C28: when user A, who may sign the slot, signs a slot of a document     *)
(* that carries A's signature, the call succeeds, returns that signature   *)
(* and leaves the stored signatures as they were.                          *)
C28_SignIdempotent ==
    [][IsSign(lastOp') =>
        \A a \in SignaturesOf(Signature, lastOp'.wb, lastOp'.req) :
            (a.user = lastOp'.user /\ CanSign(lastOp'.user, SlotOf(lastOp'))) =>
                /\ lastOp'.ok
                /\ lastOp'.signature = a.id
                /\ Signature' = Signature]_vars

(* A has signed a slot, the other slot was signed afterwards, and A's      *)
(* second call on the first slot has just returned A's signature           *)
C28_Witness ==
    /\ IsSign(lastOp)
    /\ lastOp.ok
    /\ Len(Signature) = 2
    /\ lastOp.signature = 1
    /\ Signature[1].user = lastOp.user
    /\ Signature[1].required_role = lastOp.req
    /\ CanSign(lastOp.user, SlotOf(lastOp))


----------------------------------------------------------------------------
(* Soft delete: vocabulary of the properties *)

(* tbl2 is tbl after a delete: no row has left, at least one row that was  *)
(* alive carries the time of deletion and is otherwise as before, every    *)
(* other row is as before, and the managers answer accordingly             *)
SoftDeleted(tbl, tbl2) ==
    /\ DOMAIN tbl2 = DOMAIN tbl
    /\ \A i \in DOMAIN tbl :
          \/ tbl2[i] = tbl[i]
          \/ /\ tbl[i].deleted_at = NULL
             /\ tbl2[i] = [tbl[i] EXCEPT !.deleted_at = NOW]
    /\ objects(tbl2) # objects(tbl)
    /\ objects(tbl2) \subseteq objects(tbl)
    /\ Ids(all_objects(tbl2)) = Ids(all_objects(tbl))
    /\ Ids(all_with_deleted(tbl2)) = Ids(all_with_deleted(tbl))
    /\ Ids(only_deleted(tbl2)) = Ids(all_objects(tbl)) \ Ids(objects(tbl2))
    /\ Ids(only_deleted(tbl)) \subseteq Ids(only_deleted(tbl2))

(* whatever the request, no row leaves tbl and no deleted row comes back *)
Tombstoned(tbl, tbl2) ==
    /\ Ids(all_objects(tbl)) \subseteq Ids(all_objects(tbl2))
    /\ Ids(only_deleted(tbl)) \subseteq Ids(only_deleted(tbl2))
    /\ Ids(only_deleted(tbl)) \cap Ids(objects(tbl2)) = {}

----------------------------------------------------------------------------
(* Roles and permissions: vocabulary of the properties *)

IsSeed(op) == op.op = "seed"

(* the default role of entry i and its Permission row are in place *)
DefaultInPlace(i) ==
    \E r \in objects(Role) :
        /\ r.name = DEFAULT_ROLES[i].name
        /\ \E p \in objects(Permission) : p.role = r.id

(* the tables after one more run of the seeding *)
SeededAgain(roles, perms) ==
    create_default_roles_and_permissions_loop(1, roles, perms)

(* C31: every run of the seeding completes, whatever the operator did to   *)
(* roles and permissions before; it changes no row that exists; with every *)
(* default role and its Permission in place it creates nothing; and a      *)
(* second run right after it changes nothing.                              *)
C31_SeedingIdempotent ==
    [][IsSeed(lastOp') =>
        /\ lastOp'.ok
        /\ IsPrefix(Role, Role')
        /\ IsPrefix(Permission, Permission')
        /\ (\A i \in DOMAIN DEFAULT_ROLES : DefaultInPlace(i))
              => (Role' = Role /\ Permission' = Permission)
        /\ SeededAgain(Role', Permission').Role = Role'
        /\ SeededAgain(Role', Permission').Permission = Permission']_vars


----------------------------------------------------------------------------
(* Snapshots created by hand: vocabulary of the properties *)

Given(v) == v # None

(* the record of recs with the greatest id *)
LastRecord(recs) == CHOOSE r \in recs : \A q \in recs : q.id <= r.id

(* op is the response to a request that created a snapshot by hand in tbl, *)
(* now tbl2, for a waybill of vehicle wbcar with the alive records recs    *)
ManualPostChecked(op, tbl, tbl2, wbcar, recs) ==
    /\ op.wb = 0 =>
          (op.ok <=> (Given(op.car) /\ Given(op.odometer) /\ Given(op.fuel)))
    /\ (op.wb # 0 /\ recs = {}) =>
          (op.ok <=> (Given(op.odometer) /\ Given(op.fuel)))
    /\ (op.wb # 0 /\ recs # {}) => op.ok
    /\ ~op.ok => tbl2 = tbl
    /\ op.ok =>
          /\ tbl2 = Append(tbl, NewRow(tbl2))
          /\ NewRow(tbl2).waybill = op.wb
          /\ NewRow(tbl2).car = IF Given(op.car) THEN op.car ELSE wbcar
          /\ NewRow(tbl2).odometer =
                IF Given(op.odometer) THEN op.odometer
                ELSE LastRecord(recs).odometer_after
          /\ NewRow(tbl2).fuel =
                IF Given(op.fuel) THEN op.fuel
                ELSE LastRecord(recs).fuel_on_return

(* C32: a snapshot created by hand is validated before anything is        *)
(* written.  Without a waybill it is accepted exactly when car, odometer   *)
(* and fuel are given; with a waybill without alive records exactly when   *)
(* odometer and fuel are given; with a waybill with alive records always,  *)
(* a missing car being the waybill's and a missing odometer / fuel the     *)
(* odometer_after / fuel_on_return of the record with the greatest id.  A  *)
(* rejected request leaves every table as it was.                          *)
C32_ManualSnapshotValidated ==
    [][/\ lastOp'.op = "pc_state_post" =>
            /\ ManualPostChecked(lastOp', OdometerFuelPassengerCar,
                  OdometerFuelPassengerCar',
                  IF lastOp'.wb = 0 THEN None
                  ELSE PassengerCarWaybill[lastOp'.wb].car,
                  PCAliveRecordsOfWaybill(lastOp'.wb))
            /\ UNCHANGED << NormsPassengerCars, PassengerCarWaybill,
                            PassengerCarWaybillRecord, ftVars >>
       /\ lastOp'.op = "ft_state_post" =>
            /\ ManualPostChecked(lastOp', OdometerFuelFireTruck,
                  OdometerFuelFireTruck',
                  IF lastOp'.wb = 0 THEN None
                  ELSE FireTruckWaybill[lastOp'.wb].car,
                  FTAliveRecordsOfWaybill(lastOp'.wb))
            /\ UNCHANGED << NormsFireTruck, FireTruckWaybill,
                            FireTruckWaybillRecord, pcVars >>]_vars

(* a request with a waybill and nothing else has been accepted: the        *)
(* waybill has two records, and the snapshot has the car of the waybill    *)
(* and the fuel on return of the second record, not of the first           *)
C32_Witness ==
    /\ lastOp.op = "pc_state_post"
    /\ lastOp.ok
    /\ lastOp.wb # 0
    /\ ~Given(lastOp.car) /\ ~Given(lastOp.odometer) /\ ~Given(lastOp.fuel)
    /\ Cardinality(PCAliveRecordsOfWaybill(lastOp.wb)) = 2
    /\ NewRow(OdometerFuelPassengerCar).car = PassengerCarWaybill[lastOp.wb].car
    /\ NewRow(OdometerFuelPassengerCar).fuel =
          LastRecord(PCAliveRecordsOfWaybill(lastOp.wb)).fuel_on_return
    /\ \E r \in PCAliveRecordsOfWaybill(lastOp.wb) :
          r.fuel_on_return # NewRow(OdometerFuelPassengerCar).fuel


(* the stored password of the user a token names, when the user resolves *)
StoredPassword(sub) ==
    {u.password : u \in {v \in objects(UserAccount) : v.id = sub}}

(* token carries the fingerprint of the password its user has now *)
CarriesStoredPassword(token) ==
    /\ StoredPassword(token.sub) # {}
    /\ token.pwd_fp = {[sha256 |-> p] : p \in StoredPassword(token.sub)}

(* C33: a token is issued with the fingerprint of the password its user   *)
(* has at the login; a request is accepted only when the user of its      *)
(* token resolves and the token carries the fingerprint of the password   *)
(* stored now, and it is accepted when moreover the token is signed with  *)
(* the secret and has not expired; a token without a fingerprint and a    *)
(* token of a deleted user are rejected; set_password stores a password   *)
(* no issued token of the user carries, so that every token issued before *)
(* is rejected after it.                                                   *)
C33_TokenBoundToPassword ==
    [][ /\ (lastOp'.op = "login" /\ lastOp'.ok) =>
              \A t \in lastOp'.token :
                  /\ t \in Token'
                  /\ CarriesStoredPassword(t)
                  /\ JWTAuthentication_authenticate(t)' = ""
        /\ lastOp'.op = "request" =>
              \A t \in lastOp'.token :
                  /\ lastOp'.ok => CarriesStoredPassword(t)
                  /\ (t.key = JWT_SECRET /\ t.exp > clock
                        /\ CarriesStoredPassword(t)) => lastOp'.ok
                  /\ (t.pwd_fp = {} \/ StoredPassword(t.sub) = {}) => ~lastOp'.ok
        /\ lastOp'.op = "user_set_password" =>
              \A t \in Token :
                  t.sub = lastOp'.sub =>
                      /\ ~CarriesStoredPassword(t)'
                      /\ JWTAuthentication_authenticate(t)' # "" ]_vars

(* a request with a token issued before the password was changed is      *)
(* rejected, and a token issued after the change is there                 *)
C33_Witness ==
    /\ lastOp.op = "request"
    /\ lastOp.err = "AuthenticationFailed:password"
    /\ lastOp.token \subseteq Token
    /\ \E t \in Token : t.sub = lastOp.sub /\ CarriesStoredPassword(t)
                          /\ JWTAuthentication_authenticate(t) = ""


(* C34: fuel balance of a waybill.  For a car whose snapshots are one seed *)
(* snapshot, inserted before any commit and dated at or before the date of *)
(* waybill w, and the snapshots of commits that are all on w, the waybill  *)
(* has availability_upon_delivery = upon_issuance + total_received -       *)
(* total_spent after every commit.                                         *)
C34_FuelBalance ==
    \A car \in PassengerCars :
        LET seeds == {s \in RowsOf(OdometerFuelPassengerCar) :
                         s.car = car /\ s.waybill = 0}
        IN  \A s \in seeds, r \in PCRecordsOf(car) :
              (/\ seeds = {s}
               /\ \A q \in RowsOf(OdometerFuelPassengerCar) :
                     q.car = car => s.id <= q.id
               /\ \A q \in PCRecordsOf(car) :
                     q.passenger_car_waybill = r.passenger_car_waybill
               /\ s.date <= PCWaybillOf(r).date)
              => PCWaybillOf(r).availability_upon_delivery
                    = PCWaybillOf(r).upon_issuance
                      + PCWaybillOf(r).total_received
                      - PCWaybillOf(r).total_spent


(* the odometer and the fuel of the latest alive snapshot of a car *)
LatestLedgerState(states, car) ==
    {<<s.odometer, s.fuel>> : s \in {q \in RowsOf(states) :
        /\ q.deleted_at = NULL /\ q.car = car
        /\ \A p \in RowsOf(states) :
              (p.deleted_at = NULL /\ p.car = car) => p.id <= q.id}}

(* C35: re-save is idempotent.  A successful re-save of a committed        *)
(* passenger-car record with the user inputs it already has leaves the     *)
(* derived fields of the records, the aggregates of the waybills and the   *)
(* odometer and fuel of the latest snapshot of every car as they were.     *)
C35_ResaveIdempotent ==
    [][ (/\ lastOp'.op = "pc_record_update"
         /\ lastOp'.ok
         /\ \A i \in DOMAIN PassengerCarWaybillRecord :
               /\ PassengerCarWaybillRecord'[i].distance_city_km
                     = PassengerCarWaybillRecord[i].distance_city_km
               /\ PassengerCarWaybillRecord'[i].distance_area_km
                     = PassengerCarWaybillRecord[i].distance_area_km
               /\ PassengerCarWaybillRecord'[i].fuel_refueled
                     = PassengerCarWaybillRecord[i].fuel_refueled
               /\ PassengerCarWaybillRecord'[i].fuel_used
                     = PassengerCarWaybillRecord[i].fuel_used)
        => /\ PassengerCarWaybillRecord' = PassengerCarWaybillRecord
           /\ PassengerCarWaybill' = PassengerCarWaybill
           /\ \A car \in PassengerCars :
                 LatestLedgerState(OdometerFuelPassengerCar', car)
                    = LatestLedgerState(OdometerFuelPassengerCar, car) ]_vars


(* C36: in every reachable state the total_spent, total_received and       *)
(* required_by_norm of every waybill are the sums of fuel_used,            *)
(* fuel_refueled and fuel_used_normal over the alive trip records of that  *)
(* waybill.                                                                *)
C36_TotalsFollowAliveRecords ==
    /\ \A w \in DOMAIN PassengerCarWaybill :
          TotalsAreSums(PassengerCarWaybill[w], PCAliveRecordsOfWaybill(w))
    /\ \A w \in DOMAIN FireTruckWaybill :
          TotalsAreSums(FireTruckWaybill[w], FTAliveRecordsOfWaybill(w))


(* the snapshots of both ledgers, the soft-deleted ones included *)
StoredSnapshots == RowsOf(OdometerFuelPassengerCar) \cup RowsOf(OdometerFuelFireTruck)

(* C37: every stored snapshot has fuel >= 0 and 0 <= odometer <= 999999;   *)
(* a committed record has fuel_on_return >= 0 and odometer_after <= 999999 *)
(* and a commit that fails, at the snapshot append or before, leaves the   *)
(* trip records and the ledger as they were.                               *)
C37_SnapshotsInRange ==
    /\ [](\A s \in StoredSnapshots :
             s.fuel >= 0 /\ s.odometer >= 0 /\ s.odometer <= MaxOdometer)
    /\ [][ /\ lastOp'.op = "pc_record_create" =>
                IF lastOp'.ok
                THEN /\ NewRow(PassengerCarWaybillRecord').fuel_on_return >= 0
                     /\ NewRow(PassengerCarWaybillRecord').odometer_after
                           <= MaxOdometer
                     /\ NewRow(OdometerFuelPassengerCar').fuel
                           = NewRow(PassengerCarWaybillRecord').fuel_on_return
                     /\ NewRow(OdometerFuelPassengerCar').odometer
                           = NewRow(PassengerCarWaybillRecord').odometer_after
                ELSE UNCHANGED << PassengerCarWaybillRecord,
                                  OdometerFuelPassengerCar >>
           /\ lastOp'.op = "ft_record_create" =>
                IF lastOp'.ok
                THEN /\ NewRow(FireTruckWaybillRecord').fuel_on_return >= 0
                     /\ NewRow(FireTruckWaybillRecord').odometer_after
                           <= MaxOdometer
                     /\ NewRow(OdometerFuelFireTruck').fuel
                           = NewRow(FireTruckWaybillRecord').fuel_on_return
                     /\ NewRow(OdometerFuelFireTruck').odometer
                           = NewRow(FireTruckWaybillRecord').odometer_after
                ELSE UNCHANGED << FireTruckWaybillRecord,
                                  OdometerFuelFireTruck >> ]_vars

(* a commit failed at the snapshot append for a car whose latest snapshot  *)
(* is at the limit of the odometer                                         *)
C37_Witness ==
    /\ lastOp.op = "pc_record_create"
    /\ lastOp.err = "ValidationError:state"
    /\ \E s \in RowsOf(OdometerFuelPassengerCar) : s.odometer = MaxOdometer


(* C38: every stored fire-truck trip record has odometer_after >=          *)
(* odometer_before, distance_km = odometer_after - odometer_before >= 0    *)
(* and fuel_used_by_distance >= 0; a commit is accepted only with an       *)
(* odometer_after at or above the odometer of the truck's latest snapshot, *)
(* and a rejected commit leaves the records, the ledger and the waybills   *)
(* as they were.                                                           *)
C38_FireTruckDistanceNonNegative ==
    /\ [](\A r \in RowsOf(FireTruckWaybillRecord) :
             /\ r.odometer_after >= r.odometer_before
             /\ r.distance_km = r.odometer_after - r.odometer_before
             /\ r.distance_km >= 0
             /\ r.fuel_used_by_distance >= 0)
    /\ [][ lastOp'.op = "ft_record_create" =>
             IF lastOp'.ok
             THEN NewRow(FireTruckWaybillRecord').odometer_after
                     >= CurrentOdometer(OdometerFuelFireTruck,
                                        FireTruckWaybill[lastOp'.wb].car)
             ELSE UNCHANGED << FireTruckWaybillRecord, OdometerFuelFireTruck,
                               FireTruckWaybill >> ]_vars

(* a commit with an odometer_after below the truck's odometer was rejected *)
(* by the database                                                         *)
C38_Witness ==
    /\ lastOp.op = "ft_record_create"
    /\ lastOp.err = "IntegrityError"
    /\ HasState(OdometerFuelFireTruck, FireTruckWaybill[lastOp.wb].car)


(* the car of the waybill a commit was for *)
CommitCar == PassengerCarWaybill[lastOp'.wb].car

(* record r starts from the latest alive snapshot of the ledger states *)
StartsFromAlive(r, states, car) ==
    \E s \in RowsOf(states) :
        /\ IsChainLatest(s, states, car)
        /\ r.odometer_before = s.odometer
        /\ r.fuel_before_departure = s.fuel

(* record r is computed with the alive norm that resolves for wb *)
ComputedWithAlive(r, norms, wb) ==
    \E n \in RowsOf(norms) :
        /\ IsResolvedNorm(n, norms, wb.car, wb.norm_season, wb.date)
        /\ r.fuel_used_city = r.distance_city_km * n.city_norm
        /\ r.fuel_used_area = r.distance_area_km * n.area_norm
        /\ r.fuel_used_normal = r.fuel_used_city + r.fuel_used_area

(* C39: tombstoned rows never feed the engine.  A commit that succeeds     *)
(* starts from the latest alive snapshot of the car, whatever deleted      *)
(* snapshots there are, is computed with the alive norm that resolves, and *)
(* leaves as upon_issuance the fuel of an alive snapshot; a commit for a   *)
(* car whose snapshots are all deleted fails as for an unseeded car, one   *)
(* whose norms are all deleted fails for want of a norm, and both change   *)
(* nothing.                                                                *)
C39_TombstonesNeverFeed ==
    [][ lastOp'.op = "pc_record_create" =>
          /\ lastOp'.ok =>
                /\ StartsFromAlive(NewRow(PassengerCarWaybillRecord'),
                                   OdometerFuelPassengerCar, CommitCar)
                /\ ComputedWithAlive(NewRow(PassengerCarWaybillRecord'),
                                     NormsPassengerCars,
                                     PassengerCarWaybill[lastOp'.wb])
                /\ IsFuelUpTo(PassengerCarWaybill'[lastOp'.wb].upon_issuance,
                              OdometerFuelPassengerCar', CommitCar,
                              PassengerCarWaybill[lastOp'.wb].date)
          /\ ~HasState(OdometerFuelPassengerCar, CommitCar) =>
                /\ lastOp'.err = "ValidationError:last_state"
                /\ UNCHANGED pcVars
          /\ (/\ HasState(OdometerFuelPassengerCar, CommitCar)
              /\ ~Resolvable(NormsPassengerCars, CommitCar,
                             PassengerCarWaybill[lastOp'.wb].norm_season,
                             PassengerCarWaybill[lastOp'.wb].date)) =>
                /\ lastOp'.err = "ValidationError:norm"
                /\ UNCHANGED pcVars ]_vars

(* a commit succeeded although the snapshot that was the car's latest and  *)
(* the norm that resolved before are deleted: it started from an older     *)
(* snapshot with other values and was computed with the older norm         *)
C39_Witness ==
    /\ lastOp.op = "pc_record_create"
    /\ lastOp.ok
    /\ LET r == NewRow(PassengerCarWaybillRecord)
           car == PassengerCarWaybill[lastOp.wb].car
       IN  /\ r.distance_city_km > 0
           /\ \E d \in only_deleted(OdometerFuelPassengerCar),
                 s \in RowsOf(OdometerFuelPassengerCar) :
                 /\ d.car = car /\ s.car = car /\ s.deleted_at = NULL
                 /\ s.id < d.id /\ s.date <= d.date
                 /\ d.id < NewRow(OdometerFuelPassengerCar).id
                 /\ d.odometer # s.odometer
                 /\ r.odometer_before = s.odometer
           /\ \E n \in only_deleted(NormsPassengerCars) :
                 /\ n.car = car /\ n.id = 2
                 /\ r.fuel_used_city = r.distance_city_km
                                         * NormsPassengerCars[1].city_norm

============================================================================
